---------------------------- MODULE Spec2Model ----------------------------
(***************************************************************************)
(* A model of the fixed-point decimal library in include/dec/utils.h and   *)
(* include/dec/fixed.h: the rounding policies, the multDiv kernel, the     *)
(* decimal value types and the text codec.                                 *)
(*                                                                         *)
(* The storage type dec_storage_t (int64) is modelled as a two's-complement*)
(* integer of w bits; every arithmetic operator takes w as its first       *)
(* parameter so that each specification can be explored exhaustively at a  *)
(* small width.  A C++ expression whose exact value leaves the w-bit range *)
(* is undefined behaviour: the operators return the wrapped value together *)
(* with a flag ub, and the actions then choose between the wrapped result  *)
(* and a trap.                                                             *)
(***************************************************************************)
EXTENDS Integers, Sequences, FiniteSets, TLC

VARIABLES
    pc,         \* position of the call under study: "call", "returned", "trapped"
    policy,     \* the RoundPolicy template argument
    ub,         \* TRUE once an expression with undefined behaviour was evaluated
    a, b,       \* div_rounded: numerator and divisor
    output, ok, \* div_rounded: the output reference and the returned bool
    value1, value2, divisor,  \* multDiv: the arguments
    result,     \* multDiv: the returned value
    path,       \* multDiv: the branch that produced the result
    overflows,  \* isMultOverflow: the returned bool
    kind,       \* decimal: the class of *this, "decimal_st" or "decimal_rt"
    m_prec,     \* decimal: Prec of decimal_st, m_prec of decimal_rt
    m_value,    \* decimal: m_value of *this
    old_value,  \* decimal: m_value of *this when the operation was called
    op,         \* decimal: the member function that was called
    rhs,        \* decimal: the integer argument of the operation
    ret,        \* decimal: the returned integer, or m_value of the returned decimal
    text,       \* codec: the characters of the stream
    consumed,   \* codec: the number of characters extracted from the input stream
    parsed,     \* codec: m_value of the decimal written by fromStream
    parse_ok,   \* codec: the bool returned by fromStream
    scan,       \* codec: the locals of parse_unpacked and the stream position
    before, after,            \* unpack: the two output references
    other_prec, other_value,  \* binary operators: m_prec and m_value of the argument
    mantissa, exponent        \* setWithExponent / getWithExponent: the pair

roundVars == <<a, b, output, ok>>
multDivVars == <<value1, value2, divisor, result, path, overflows>>
decimalVars == <<kind, m_prec, m_value, old_value, op, rhs, ret>>
codecVars == <<text, consumed, parsed, parse_ok, scan>>
memberVars == <<before, after, other_prec, other_value, mantissa, exponent>>
vars == <<pc, policy, ub, roundVars, multDivVars, decimalVars, codecVars,
          memberVars>>

---------------------------------------------------------------------------
(* Bounds of the model *)

\* bit width of the storage type in the rounding-policy specification
Width == 7
\* bit width of the storage type in the multDiv specification
MultDivWidth == 5
\* bit width of the storage type in the integer-division specification
DivideWidth == 6
\* bit width of the storage type in the specification of the unary operations
DecimalWidth == 11
\* bit width of the storage type in the text codec specification
CodecWidth == 11
\* longest text handed to fromStream by a caller
MaxTextLen == 3
\* bit width of the storage type in the specification of sign, abs, unpack
\* and pack
MemberWidth == 8
\* bit width of the storage type in the specification of decimal_rt addition
\* and subtraction, and the largest magnitude of an operand's raw value apart
\* from the two ends of the storage range
AddSubWidth == 8
MaxOperand == 12
\* bit width of the storage type in the specification of construction and
\* assignment from an integer
ConstructWidth == 8
\* bit width of the storage type in the specification of setWithExponent and
\* getWithExponent
ExponentWidth == 8
\* bit width of the storage type in the specification of the operators that
\* combine two decimals of fixed, possibly different, precisions
CrossWidth == 8
\* bit width of the storage type in the specification of the quotient of
\* two decimals: wide enough for the raw values of the header's sample
QuotientWidth == 28
\* bit width of the storage type and the length of the texts in the
\* specification of the scanner of parse_unpacked
ScanWidth == 8
MaxScanLen == 4

---------------------------------------------------------------------------
(* Machine integers: utils.h lines 58-70 and 98-100 *)

DEC_MAX_INT64(w) == 2^(w - 1) - 1
DEC_MIN_INT64(w) == -(2^(w - 1))
int64(w) == DEC_MIN_INT64(w)..DEC_MAX_INT64(w)

\* the exact value x is not representable in the storage type
Ov(w, x) == x < DEC_MIN_INT64(w) \/ x > DEC_MAX_INT64(w)
\* two's-complement reduction of an exact value
Wrap(w, x) == ((x - DEC_MIN_INT64(w)) % (2^w)) + DEC_MIN_INT64(w)

AbsVal(x) == IF x < 0 THEN -x ELSE x

\* the value F(v): names an intermediate result, as a local variable does
With(v, F(_)) == F(v)

RECURSIVE MathGcd(_, _)
\* the greatest common divisor of |x| and |y|
MathGcd(x, y) == IF y = 0 THEN AbsVal(x) ELSE MathGcd(y, AbsVal(x) % AbsVal(y))

\* C++ integer division and remainder: truncation toward zero
CDiv(x, y) ==
    IF y = 0 THEN 0
    ELSE IF (x < 0) = (y < 0) THEN AbsVal(x) \div AbsVal(y)
    ELSE -(AbsVal(x) \div AbsVal(y))
CMod(x, y) == x - y * CDiv(x, y)

\* the C++ expression (num) / d, where num is the exact value of the numerator
\* expression and d a stored value
Quot(w, num, d) ==
    With(CDiv(Wrap(w, num), d), LAMBDA q :
        [v |-> Wrap(w, q), ub |-> Ov(w, num) \/ d = 0 \/ Ov(w, q)])
\* the C++ expression x % d on stored values
Rem(w, x, d) ==
    [v |-> CMod(x, d), ub |-> d = 0 \/ (x = DEC_MIN_INT64(w) /\ d = -1)]
\* std::abs on the storage type
std_abs(w, x) == [v |-> Wrap(w, AbsVal(x)), ub |-> Ov(w, AbsVal(x))]

---------------------------------------------------------------------------
(* Rounding policies: div_rounded *)

Policies == {"def", "half_down", "half_up", "half_even",
             "ceiling", "floor", "round_down", "round_up"}

\* output = q; return true; where ub0 tells that forming the operands of the
\* quotient q was undefined
Returned(q, ub0) == [output |-> q.v, ok |-> TRUE, ub |-> ub0 \/ q.ub]
\* output = 0; return false;
Failed(ub0) == [output |-> 0, ok |-> FALSE, ub |-> ub0]

\* dec::div_rounded, used by def_round_policy
dec_div_rounded(w, a0, b0) ==
    With(std_abs(w, b0), LAMBDA ab :
    With(CDiv(ab.v, 2), LAMBDA divisorCorr :
        IF a0 >= 0
        THEN IF DEC_MAX_INT64(w) - a0 >= divisorCorr
             THEN Returned(Quot(w, a0 + divisorCorr, b0), ab.ub)
             ELSE Failed(ab.ub)
        ELSE IF -(DEC_MIN_INT64(w) - a0) >= divisorCorr
             THEN Returned(Quot(w, a0 - divisorCorr, b0), ab.ub)
             ELSE Failed(ab.ub)))

\* null_round_policy::div_rounded, inherited by round_down_round_policy
null_div_rounded(w, a0, b0) == Returned(Quot(w, a0, b0), FALSE)

\* the values std::abs(b), std::abs(a) and std::abs(a) % std::abs(b) that the
\* policies below compute first; ub tells that one of them was undefined
Magnitudes(w, a0, b0) ==
    With(std_abs(w, b0), LAMBDA ab :
    With(std_abs(w, a0), LAMBDA aa :
    With(Rem(w, aa.v, ab.v), LAMBDA rm :
        [absb |-> ab.v, remainder |-> rm.v, ub |-> ab.ub \/ aa.ub \/ rm.ub])))

half_down_div_rounded(w, a0, b0) ==
    With(Magnitudes(w, a0, b0), LAMBDA m :
    With(CDiv(m.absb, 2), LAMBDA divisorCorr :
        IF a0 >= 0
        THEN IF DEC_MAX_INT64(w) - a0 >= divisorCorr
             THEN IF m.remainder > divisorCorr
                  THEN Returned(Quot(w, a0 + divisorCorr, b0), m.ub)
                  ELSE Returned(Quot(w, a0, b0), m.ub)
             ELSE Failed(m.ub)
        ELSE IF -(DEC_MIN_INT64(w) - a0) >= divisorCorr
             THEN Returned(Quot(w, a0 - divisorCorr, b0), m.ub)
             ELSE Failed(m.ub)))

half_up_div_rounded(w, a0, b0) ==
    With(Magnitudes(w, a0, b0), LAMBDA m :
    With(CDiv(m.absb, 2), LAMBDA divisorCorr :
        IF a0 >= 0
        THEN IF DEC_MAX_INT64(w) - a0 >= divisorCorr
             THEN IF m.remainder >= divisorCorr
                  THEN Returned(Quot(w, a0 + divisorCorr, b0), m.ub)
                  ELSE Returned(Quot(w, a0, b0), m.ub)
             ELSE Failed(m.ub)
        ELSE IF -(DEC_MIN_INT64(w) - a0) >= divisorCorr
             THEN IF m.remainder < divisorCorr
                  THEN Returned(Quot(w, a0 - m.remainder, b0), m.ub)
                  ELSE IF m.remainder = divisorCorr
                  THEN Returned(Quot(w, a0 + divisorCorr, b0), m.ub)
                  \* (a + remainder - |b|) / b
                  ELSE Returned(Quot(w, Wrap(w, a0 + m.remainder) - m.absb, b0),
                                m.ub \/ Ov(w, a0 + m.remainder))
             ELSE Failed(m.ub)))

\* half_even_round_policy: output = a / b at a tie with an even quotient,
\* tieub tells that computing is_even was undefined
half_even_div_rounded(w, a0, b0) ==
    With(Magnitudes(w, a0, b0), LAMBDA m :
    With(CDiv(m.absb, 2), LAMBDA divisorDiv2 :
    With(Quot(w, a0, b0), LAMBDA plain :
    With(std_abs(w, plain.v), LAMBDA aq :
    With(CMod(aq.v, 2) = 0, LAMBDA is_even :
    With(m.ub \/ plain.ub \/ aq.ub, LAMBDA tieub :
        IF m.remainder = 0 THEN Returned(plain, m.ub)
        ELSE IF a0 >= 0
        THEN IF m.remainder > divisorDiv2
             \* (a - remainder + |b|) / b
             THEN Returned(Quot(w, Wrap(w, a0 - m.remainder) + m.absb, b0),
                           m.ub \/ Ov(w, a0 - m.remainder))
             ELSE IF m.remainder < divisorDiv2
             THEN Returned(Quot(w, a0 - m.remainder, b0), m.ub)
             ELSE IF is_even
             THEN [output |-> plain.v, ok |-> TRUE, ub |-> tieub]
             ELSE Returned(Quot(w, Wrap(w, a0 - m.remainder) + m.absb, b0),
                           tieub \/ Ov(w, a0 - m.remainder))
        ELSE IF m.remainder > divisorDiv2
             \* (a + remainder - |b|) / b
             THEN Returned(Quot(w, Wrap(w, a0 + m.remainder) - m.absb, b0),
                           m.ub \/ Ov(w, a0 + m.remainder))
             ELSE IF m.remainder < divisorDiv2
             THEN Returned(Quot(w, a0 + m.remainder, b0), m.ub)
             ELSE IF is_even
             THEN [output |-> plain.v, ok |-> TRUE, ub |-> tieub]
             ELSE Returned(Quot(w, Wrap(w, a0 + m.remainder) - m.absb, b0),
                           tieub \/ Ov(w, a0 + m.remainder))))))))

ceiling_div_rounded(w, a0, b0) ==
    With(Magnitudes(w, a0, b0), LAMBDA m :
        IF m.remainder = 0 THEN Returned(Quot(w, a0, b0), m.ub)
        ELSE IF a0 >= 0 THEN Returned(Quot(w, a0 + m.absb, b0), m.ub)
        ELSE Returned(Quot(w, a0, b0), m.ub))

floor_div_rounded(w, a0, b0) ==
    With(Magnitudes(w, a0, b0), LAMBDA m :
        IF m.remainder = 0 THEN Returned(Quot(w, a0, b0), m.ub)
        ELSE IF a0 >= 0 THEN Returned(Quot(w, a0 - m.remainder, b0), m.ub)
        \* (a + remainder - |b|) / b
        ELSE Returned(Quot(w, Wrap(w, a0 + m.remainder) - m.absb, b0),
                      m.ub \/ Ov(w, a0 + m.remainder)))

round_up_div_rounded(w, a0, b0) ==
    With(Magnitudes(w, a0, b0), LAMBDA m :
        IF m.remainder = 0 THEN Returned(Quot(w, a0, b0), m.ub)
        ELSE IF a0 >= 0 THEN Returned(Quot(w, a0 + m.absb, b0), m.ub)
        ELSE Returned(Quot(w, a0 - m.absb, b0), m.ub))

\* RoundPolicy::div_rounded(output, a, b) for the policy pol
div_rounded(w, pol, a0, b0) ==
    CASE pol = "def"        -> dec_div_rounded(w, a0, b0)
      [] pol = "half_down"  -> half_down_div_rounded(w, a0, b0)
      [] pol = "half_up"    -> half_up_div_rounded(w, a0, b0)
      [] pol = "half_even"  -> half_even_div_rounded(w, a0, b0)
      [] pol = "ceiling"    -> ceiling_div_rounded(w, a0, b0)
      [] pol = "floor"      -> floor_div_rounded(w, a0, b0)
      [] pol = "round_down" -> null_div_rounded(w, a0, b0)
      [] pol = "round_up"   -> round_up_div_rounded(w, a0, b0)

---------------------------------------------------------------------------
(* cross_float (long double): a binary floating-point number with a         *)
(* significand of mant bits, round to nearest even.  A value is the exact  *)
(* rational n / d with d > 0.  The x87 extended format has a 64-bit        *)
(* significand for the 64-bit storage type, so mant = w.                   *)

cross_float_mant(w) == w

\* the rational n / d in lowest terms
Lowest(n, d) ==
    With(MathGcd(n, d), LAMBDA g : [n |-> n \div g, d |-> d \div g])

RECURSIVE FNormalize(_, _, _, _)
\* scale n / d by 2^-e until 2^(mant-1) <= n / d < 2^mant
FNormalize(mant, n, d, e) ==
    IF n \div d >= 2^mant
    THEN IF n % 2 = 0 THEN FNormalize(mant, n \div 2, d, e + 1)
         ELSE FNormalize(mant, n, 2 * d, e + 1)
    ELSE IF n \div d < 2^(mant - 1)
    THEN IF d % 2 = 0 THEN FNormalize(mant, n, d \div 2, e - 1)
         ELSE FNormalize(mant, 2 * n, d, e - 1)
    ELSE [n |-> n, d |-> d, e |-> e]

\* the floating-point number nearest to the exact value q
FRound(mant, q) ==
    IF q.n = 0 THEN [n |-> 0, d |-> 1]
    ELSE With(IF q.n < 0 THEN -1 ELSE 1, LAMBDA sg :
         With(FNormalize(mant, AbsVal(q.n), q.d, 0), LAMBDA nm :
         With(nm.n \div nm.d, LAMBDA m0 :
         With(nm.n % nm.d, LAMBDA r0 :
         With(IF 2 * r0 > nm.d \/ (2 * r0 = nm.d /\ m0 % 2 = 1)
              THEN m0 + 1 ELSE m0, LAMBDA m :
             IF nm.e >= 0 THEN [n |-> sg * m * (2^nm.e), d |-> 1]
             ELSE With(Lowest(m, 2^(-nm.e)), LAMBDA low :
                      [n |-> sg * low.n, d |-> low.d]))))))

\* static_cast<cross_float>(x) of a stored integer
ToFloat(w, x) == FRound(cross_float_mant(w), [n |-> x, d |-> 1])
FMul(w, x, y) == FRound(cross_float_mant(w), [n |-> x.n * y.n, d |-> x.d * y.d])
FDiv(w, x, y) ==
    FRound(cross_float_mant(w),
           IF y.n < 0 THEN [n |-> -(x.n * y.d), d |-> x.d * (-y.n)]
           ELSE [n |-> x.n * y.d, d |-> x.d * y.n])
\* x + h/2 for h in {-1, 1}
FAddHalf(w, x, h) ==
    FRound(cross_float_mant(w), [n |-> 2 * x.n + h * x.d, d |-> 2 * x.d])
FFloor(x) == x.n \div x.d
FCeil(x) == -((-x.n) \div x.d)
\* static_cast<int64>(x): truncation, undefined when out of range
FToInt(w, x) ==
    With(CDiv(x.n, x.d), LAMBDA t : [v |-> Wrap(w, t), ub |-> Ov(w, t)])
\* twice the fractional part `decimals` computed by the half policies,
\* as the exact rational n / d
Decimals(x) ==
    IF x.n >= 0 THEN [n |-> x.n - FFloor(x) * x.d, d |-> x.d]
    ELSE [n |-> AbsVal(x.n + FFloor([n |-> -x.n, d |-> x.d]) * x.d), d |-> x.d]
IntAsFloat(i) == [n |-> i, d |-> 1]

\* round of the half policies: the cross_float chosen before the final floor,
\* or the integer chosen by half_even; gt and lt compare decimals with 0.5,
\* tieUp tells which neighbour a tie takes
HalfRounded(w, pol, x, dc, fl, ce) ==
    With(2 * dc.n > dc.d, LAMBDA gt :
    With(2 * dc.n < dc.d, LAMBDA lt :
        CASE pol = "half_down" ->
               FToInt(w, IntAsFloat(FFloor(
                   IF x.n >= 0 THEN (IF gt THEN ce ELSE x)
                   ELSE (IF lt THEN ce ELSE x))))
          [] pol = "half_up" ->
               FToInt(w, IntAsFloat(FFloor(
                   IF x.n >= 0 THEN (IF ~lt THEN ce ELSE x)
                   ELSE (IF ~gt THEN ce ELSE x))))
          [] pol = "half_even" ->
               FToInt(w,
                   IF x.n >= 0
                   THEN (IF gt THEN ce ELSE IF lt THEN fl
                         ELSE IF CDiv(x.n - dc.n, x.d) % 2 = 0 THEN fl ELSE ce)
                   ELSE (IF gt THEN fl ELSE IF lt THEN ce
                         ELSE IF CDiv(x.n + dc.n, x.d) % 2 = 0 THEN ce ELSE fl))))

\* RoundPolicy::round(value) for a cross_float value
round(w, pol, x) ==
    CASE pol = "def" -> FToInt(w, FAddHalf(w, x, IF x.n < 0 THEN -1 ELSE 1))
      [] pol = "round_down" -> FToInt(w, x)
      [] pol \in {"half_down", "half_up", "half_even"} ->
           HalfRounded(w, pol, x, Decimals(x),
                       IntAsFloat(FFloor(x)), IntAsFloat(FCeil(x)))
      [] pol = "ceiling" -> FToInt(w, IntAsFloat(FCeil(x)))
      [] pol = "floor" -> FToInt(w, IntAsFloat(FFloor(x)))
      [] pol = "round_up" ->
           FToInt(w, IntAsFloat(IF x.n >= 0 THEN FCeil(x) ELSE FFloor(x)))

---------------------------------------------------------------------------
(* dec_utils: isMultOverflow, gcd, multDiv *)

RECURSIVE isMultOverflow(_, _, _)
isMultOverflow(w, v1, v2) ==
    IF v1 = 0 \/ v2 = 0 THEN FALSE
    ELSE IF (v1 < 0) # (v2 < 0)
    THEN IF v1 = DEC_MIN_INT64(w) THEN v2 > 1
         ELSE IF v2 = DEC_MIN_INT64(w) THEN v1 > 1
         ELSE IF v1 < 0 THEN isMultOverflow(w, -v1, v2)
         ELSE isMultOverflow(w, v1, -v2)
    ELSE IF v1 < 0 /\ v2 < 0
    THEN IF v1 = DEC_MIN_INT64(w) THEN v2 < -1
         ELSE IF v2 = DEC_MIN_INT64(w) THEN v1 < -1
         ELSE isMultOverflow(w, -v1, -v2)
    ELSE v1 > CDiv(DEC_MAX_INT64(w), v2)

RECURSIVE gcd(_, _, _)
\* while (a != 0) { c = a; a = b % a; b = c; } return b;
gcd(w, x, y) ==
    IF x = 0 THEN [v |-> y, ub |-> FALSE]
    ELSE With(Rem(w, y, x), LAMBDA rm :
         With(gcd(w, rm.v, x), LAMBDA g :
             [v |-> g.v, ub |-> rm.ub \/ g.ub]))

\* the exact product x * y stored in an int64
Mul(w, x, y) == [v |-> Wrap(w, x * y), ub |-> Ov(w, x * y)]
Add(w, x, y) == [v |-> Wrap(w, x + y), ub |-> Ov(w, x + y)]

\* multDiv, first attempt: the product of the remainders fits; res is the
\* integer part of the result and ub0 tells that forming it was undefined
multDivProduct(w, pol, res, ub0, value1dec, value2dec, dv) ==
    With(Mul(w, value1dec, value2dec), LAMBDA prod :
    With(div_rounded(w, pol, prod.v, dv), LAMBDA dr :
    With(Add(w, res, IF dr.ok THEN dr.output ELSE 0), LAMBDA sum :
        [result |-> sum.v, ub |-> ub0 \/ prod.ub \/ dr.ub \/ sum.ub,
         path |-> IF dr.ok THEN "product" ELSE "dropped"])))

\* x /= c when c != 1
DivideUnlessOne(w, x, c) ==
    IF c # 1 THEN Quot(w, x, c) ELSE [v |-> x, ub |-> FALSE]

\* multDiv: minimalize value1 & divisor, then value2 & divisor
multDivReduce(w, value1dec, value2dec, dv) ==
    With(gcd(w, value1dec, dv), LAMBDA c1 :
    With(DivideUnlessOne(w, value1dec, c1.v), LAMBDA v1r :
    With(DivideUnlessOne(w, dv, c1.v), LAMBDA d1r :
    With(gcd(w, value2dec, d1r.v), LAMBDA c2 :
    With(DivideUnlessOne(w, value2dec, c2.v), LAMBDA v2r :
    With(DivideUnlessOne(w, d1r.v, c2.v), LAMBDA d2r :
        [value1 |-> v1r.v, value2 |-> v2r.v, divisor |-> d2r.v,
         ub |-> c1.ub \/ v1r.ub \/ d1r.ub \/ c2.ub \/ v2r.ub \/ d2r.ub]))))))

\* multDiv after the reduction rd: the integer second attempt, or else the
\* less precise floating-point version
multDivReduced(w, pol, res, ub0, rd) ==
    With(~isMultOverflow(w, rd.value1, rd.value2), LAMBDA fits :
    With(Mul(w, rd.value1, rd.value2), LAMBDA prod :
    With(div_rounded(w, pol, prod.v, rd.divisor), LAMBDA dr :
        IF fits /\ dr.ok
        THEN With(Add(w, res, dr.output), LAMBDA sum :
                 [result |-> sum.v,
                  ub |-> ub0 \/ rd.ub \/ prod.ub \/ dr.ub \/ sum.ub,
                  path |-> "gcd"])
        ELSE With(round(w, pol,
                        FDiv(w, FMul(w, ToFloat(w, rd.value1),
                                     ToFloat(w, rd.value2)),
                             ToFloat(w, rd.divisor))), LAMBDA fr :
             With(Add(w, res, fr.v), LAMBDA sum :
                 [result |-> sum.v,
                  ub |-> ub0 \/ rd.ub \/ (fits /\ (prod.ub \/ dr.ub))
                         \/ fr.ub \/ sum.ub,
                  path |-> "float"])))))

\* the integer part of multDiv's result:
\* value1 * value2int + value1int * value2dec
multDivIntegerPart(w, v1, value1int, value2int, value2dec) ==
    With(Mul(w, v1, value2int.v), LAMBDA p1 :
    With(Mul(w, value1int.v, value2dec.v), LAMBDA p2 :
    With(Add(w, p1.v, p2.v), LAMBDA sum :
        [v |-> sum.v,
         ub |-> value1int.ub \/ value2int.ub \/ value2dec.ub
                \/ p1.ub \/ p2.ub \/ sum.ub])))

\* dec_utils<RoundPolicy>::multDiv(value1, value2, divisor); path names the
\* return statement taken
multDiv(w, pol, v1, v2, dv) ==
    With(Rem(w, v1, dv), LAMBDA value1dec :
    With(Rem(w, v2, dv), LAMBDA value2dec :
    With(multDivIntegerPart(w, v1, Quot(w, v1, dv), Quot(w, v2, dv), value2dec),
         LAMBDA res :
    With(res.ub \/ value1dec.ub, LAMBDA ub0 :
        IF value1dec.v = 0 \/ value2dec.v = 0
        THEN [result |-> res.v, ub |-> ub0, path |-> "exact"]
        ELSE IF ~isMultOverflow(w, value1dec.v, value2dec.v)
        THEN multDivProduct(w, pol, res.v, ub0, value1dec.v, value2dec.v, dv)
        ELSE multDivReduced(w, pol, res.v, ub0,
                            multDivReduce(w, value1dec.v, value2dec.v, dv))))))

---------------------------------------------------------------------------
(* Specification of the rounding policies: one call of div_rounded *)

IdleRound == a = 0 /\ b = 1 /\ output = 0 /\ ok = FALSE
IdleMultDiv ==
    /\ value1 = 0 /\ value2 = 0 /\ divisor = 1 /\ result = 0 /\ path = "none"
    /\ overflows = FALSE
IdleDecimal ==
    /\ kind = "none" /\ m_prec = 0 /\ m_value = 0 /\ old_value = 0
    /\ op = "none" /\ rhs = 0 /\ ret = 0
\* no call of parse_unpacked is under study
NoScan == [state |-> "none"]
IdleCodec ==
    /\ text = <<>> /\ consumed = 0 /\ parsed = 0 /\ parse_ok = FALSE
    /\ scan = NoScan
IdleMember ==
    /\ before = 0 /\ after = 0 /\ other_prec = 0 /\ other_value = 0
    /\ mantissa = 0 /\ exponent = 0

InitRound ==
    /\ pc = "call"
    /\ policy \in Policies
    /\ a \in int64(Width)
    /\ b \in int64(Width) \ {0}
    /\ output = 0
    /\ ok = FALSE
    /\ ub = FALSE
    /\ IdleMultDiv
    /\ IdleDecimal
    /\ IdleCodec
    /\ IdleMember

\* RoundPolicy::div_rounded(output, a, b)
DivRounded ==
    /\ pc = "call"
    /\ \E r \in {div_rounded(Width, policy, a, b)} :
           \/ /\ pc' = "returned"
              /\ output' = r.output
              /\ ok' = r.ok
              /\ ub' = r.ub
           \/ /\ r.ub
              /\ pc' = "trapped"
              /\ ub' = TRUE
              /\ UNCHANGED <<output, ok>>
    /\ UNCHANGED <<policy, a, b, multDivVars, decimalVars, codecVars, memberVars>>

NextRound == DivRounded

SpecRound == InitRound /\ [][NextRound]_vars

---------------------------------------------------------------------------
(* Specification of the kernel: one call of multDiv *)

MultDivPolicies == {"def", "half_even"}

InitMultDiv ==
    /\ pc = "call"
    /\ policy \in MultDivPolicies
    /\ value1 \in int64(MultDivWidth)
    /\ value2 \in int64(MultDivWidth)
    /\ divisor \in int64(MultDivWidth) \ {0}
    /\ result = 0
    /\ path = "none"
    /\ overflows = FALSE
    /\ ub = FALSE
    /\ IdleRound
    /\ IdleDecimal
    /\ IdleCodec
    /\ IdleMember

\* dec_utils<RoundPolicy>::multDiv(value1, value2, divisor)
MultDiv ==
    /\ pc = "call"
    /\ \E r \in {multDiv(MultDivWidth, policy, value1, value2, divisor)} :
           \/ /\ pc' = "returned"
              /\ result' = r.result
              /\ path' = r.path
              /\ ub' = r.ub
           \/ /\ r.ub
              /\ pc' = "trapped"
              /\ ub' = TRUE
              /\ UNCHANGED <<result, path>>
    /\ UNCHANGED <<policy, value1, value2, divisor, overflows, roundVars,
                   decimalVars, codecVars, memberVars>>

\* dec_utils<RoundPolicy>::isMultOverflow(value1, value2)
IsMultOverflow ==
    /\ pc = "call"
    /\ pc' = "checked"
    /\ overflows' = isMultOverflow(MultDivWidth, value1, value2)
    /\ UNCHANGED <<policy, ub, value1, value2, divisor, result, path,
                   roundVars, decimalVars, codecVars, memberVars>>

NextMultDiv ==
    \/ MultDiv
    \/ IsMultOverflow

SpecMultDiv == InitMultDiv /\ [][NextMultDiv]_vars

---------------------------------------------------------------------------
(* The decimal types decimal_st<Prec, RoundPolicy> and decimal_rt<RoundPolicy> *)

\* dec::max_decimal_points: the largest n with 10^n in the storage range
\* (18 for the 64-bit storage type)
max_decimal_points(w) ==
    CHOOSE n \in 0..(w \div 3) :
        10^n <= DEC_MAX_INT64(w) /\ 10^(n + 1) > DEC_MAX_INT64(w)

\* DecimalFactor<Prec>::value
DecimalFactor(p) == 10^p

\* the type int of an integer argument: half as wide as the storage type
int(w) == int64(w \div 2)

\* words that an access behind the end of prec_factor_mas can read
StrayWords(w) == {0, 1, 10^max_decimal_points(w), DEC_MIN_INT64(w)}

\* decimal_rt::getPrecFactorInt64(prec): the table has one entry for each of
\* 0 .. max_decimal_points - 1 and the index is not checked; stray is the
\* word found behind the table
getPrecFactorInt64(w, prec, stray) ==
    IF prec >= 0 /\ prec < max_decimal_points(w)
    THEN [v |-> 10^prec, ub |-> FALSE]
    ELSE [v |-> stray, ub |-> TRUE]

\* the body shared by operator/(int), operator/(int64), operator/=(int) and
\* operator/=(int64) of both classes: div_rounded writes its output into the
\* m_value that multDiv then reads
DivideByInteger(w, pol, m, r) ==
    With(div_rounded(w, pol, m, r), LAMBDA dr :
        IF dr.ok THEN [m_value |-> dr.output, ub |-> dr.ub]
        ELSE With(multDiv(w, pol, dr.output, 1, r), LAMBDA md :
                 [m_value |-> md.result, ub |-> dr.ub \/ md.ub]))

\* decimal_st::getAsInteger
st_getAsInteger(w, pol, p, m) ==
    With(div_rounded(w, pol, m, DecimalFactor(p)), LAMBDA dr :
        [v |-> dr.output, ub |-> dr.ub])

\* decimal_rt::getAsInteger
rt_getAsInteger(w, pol, p, m, stray) ==
    With(getPrecFactorInt64(w, p, stray), LAMBDA f :
    With(div_rounded(w, pol, m, f.v), LAMBDA dr :
        [v |-> dr.output, ub |-> f.ub \/ dr.ub]))

Kinds == {"decimal_st", "decimal_rt"}

\* a decimal of either class with any policy, precision and raw value
InitDecimalAt(w) ==
    /\ pc = "call"
    /\ policy \in Policies
    /\ kind \in Kinds
    /\ m_prec \in 0..max_decimal_points(w)
    /\ m_value \in int64(w)
    /\ old_value = m_value
    /\ op = "none"
    /\ rhs = 0
    /\ ret = 0
    /\ ub = FALSE
    /\ IdleRound
    /\ IdleMultDiv
    /\ IdleCodec
    /\ IdleMember

---------------------------------------------------------------------------
(* Specification of the division of a decimal by a bare integer *)

InitDivide == InitDecimalAt(DivideWidth)

\* the call `name` with the argument r made on *this; assign tells operator/=,
\* which stores the quotient in *this, from operator/, which returns a copy
Divided(name, r, assign) ==
    /\ op' = name
    /\ rhs' = r
    /\ \E d \in {DivideByInteger(DivideWidth, policy, m_value, r)} :
           \/ /\ pc' = "returned"
              /\ ret' = d.m_value
              /\ m_value' = IF assign THEN d.m_value ELSE m_value
              /\ ub' = d.ub
           \/ /\ d.ub
              /\ pc' = "trapped"
              /\ ub' = TRUE
              /\ UNCHANGED <<ret, m_value>>
    /\ UNCHANGED <<policy, kind, m_prec, old_value, roundVars, multDivVars,
                   codecVars, memberVars>>

\* decimal_st::operator/(int rhs)
StDivInt ==
    /\ pc = "call"
    /\ kind = "decimal_st"
    /\ \E r \in int(DivideWidth) \ {0} : Divided("operator/(int)", r, FALSE)

\* decimal_st::operator/(int64 rhs)
StDivInt64 ==
    /\ pc = "call"
    /\ kind = "decimal_st"
    /\ \E r \in int64(DivideWidth) \ {0} : Divided("operator/(int64)", r, FALSE)

\* decimal_st::operator/=(int rhs)
StDivAssignInt ==
    /\ pc = "call"
    /\ kind = "decimal_st"
    /\ \E r \in int(DivideWidth) \ {0} : Divided("operator/=(int)", r, TRUE)

\* decimal_st::operator/=(int64 rhs)
StDivAssignInt64 ==
    /\ pc = "call"
    /\ kind = "decimal_st"
    /\ \E r \in int64(DivideWidth) \ {0} : Divided("operator/=(int64)", r, TRUE)

\* decimal_rt::operator/(int rhs)
RtDivInt ==
    /\ pc = "call"
    /\ kind = "decimal_rt"
    /\ \E r \in int(DivideWidth) \ {0} : Divided("operator/(int)", r, FALSE)

\* decimal_rt::operator/(int64 rhs)
RtDivInt64 ==
    /\ pc = "call"
    /\ kind = "decimal_rt"
    /\ \E r \in int64(DivideWidth) \ {0} : Divided("operator/(int64)", r, FALSE)

\* decimal_rt::operator/=(int rhs)
RtDivAssignInt ==
    /\ pc = "call"
    /\ kind = "decimal_rt"
    /\ \E r \in int(DivideWidth) \ {0} : Divided("operator/=(int)", r, TRUE)

\* decimal_rt::operator/=(int64 rhs)
RtDivAssignInt64 ==
    /\ pc = "call"
    /\ kind = "decimal_rt"
    /\ \E r \in int64(DivideWidth) \ {0} : Divided("operator/=(int64)", r, TRUE)

NextDivide ==
    \/ StDivInt
    \/ StDivInt64
    \/ StDivAssignInt
    \/ StDivAssignInt64
    \/ RtDivInt
    \/ RtDivInt64
    \/ RtDivAssignInt
    \/ RtDivAssignInt64

SpecDivide == InitDivide /\ [][NextDivide]_vars

---------------------------------------------------------------------------
(* Specification of the operations on one decimal *)

InitDecimal == InitDecimalAt(DecimalWidth)

\* decimal_st::getAsInteger()
StGetAsInteger ==
    /\ pc = "call"
    /\ kind = "decimal_st"
    /\ \E r \in {st_getAsInteger(DecimalWidth, policy, m_prec, m_value)} :
           \/ /\ pc' = "returned"
              /\ ret' = r.v
              /\ ub' = r.ub
           \/ /\ r.ub
              /\ pc' = "trapped"
              /\ ub' = TRUE
              /\ UNCHANGED ret
    /\ op' = "getAsInteger"
    /\ UNCHANGED <<policy, kind, m_prec, m_value, old_value, rhs, roundVars,
                   multDivVars, codecVars, memberVars>>

\* decimal_rt::getAsInteger()
RtGetAsInteger ==
    /\ pc = "call"
    /\ kind = "decimal_rt"
    /\ \E stray \in StrayWords(DecimalWidth) :
       \E r \in {rt_getAsInteger(DecimalWidth, policy, m_prec, m_value, stray)} :
           \/ /\ pc' = "returned"
              /\ ret' = r.v
              /\ ub' = r.ub
           \/ /\ r.ub
              /\ pc' = "trapped"
              /\ ub' = TRUE
              /\ UNCHANGED ret
    /\ op' = "getAsInteger"
    /\ UNCHANGED <<policy, kind, m_prec, m_value, old_value, rhs, roundVars,
                   multDivVars, codecVars, memberVars>>

NextDecimal ==
    \/ StGetAsInteger
    \/ RtGetAsInteger

SpecDecimal == InitDecimal /\ [][NextDecimal]_vars

---------------------------------------------------------------------------
(* The text codec: toStream, parse_unpacked, fromStream (utils.h) *)

\* the characters '0' .. '9'
DigitChars == <<"0", "1", "2", "3", "4", "5", "6", "7", "8", "9">>
DigitChar(d) == DigitChars[d + 1]
\* (c >= '0') && (c <= '9')
IsDigit(c) == \E i \in 1..10 : DigitChars[i] = c
\* static_cast<int>(c - '0')
DigitVal(c) == (CHOOSE i \in 1..10 : DigitChars[i] = c) - 1
\* static_cast<char>(input.get()) when the stream is exhausted
EofChar == "EOF"
\* numpunct<char> of the classic locale
dec_point == "."
thousands_grouping == FALSE
thousands_sep == ","

RECURSIVE Digits(_)
\* the decimal digits of n >= 0, most significant first
Digits(n) ==
    IF n < 10 THEN <<DigitChar(n)>>
    ELSE Append(Digits(n \div 10), DigitChar(n % 10))
\* ostream << int64
IntToText(n) == IF n < 0 THEN <<"-">> \o Digits(-n) ELSE Digits(n)
\* the text t written with no field width set
Unpadded(t, width) == t
\* setw(width) << setfill('0') << right applied to the text t
SetwFill(t, width) ==
    IF Len(t) >= width THEN t
    ELSE [i \in 1..(width - Len(t)) |-> "0"] \o t

\* unary minus on the storage type
Neg(w, x) == [v |-> Wrap(w, -x), ub |-> Ov(w, -x)]

\* decimal_st::unpack(beforeValue, afterValue)
unpack(w, p, m) ==
    With(CMod(m, DecimalFactor(p)), LAMBDA afterValue :
        [before |-> CDiv(m - afterValue, DecimalFactor(p)),
         after |-> afterValue])

\* the integer part alone, scaled by the factor
PackWithoutFraction(w, p, beforeValue, afterValue) ==
    [m_value |-> Wrap(w, beforeValue * DecimalFactor(p)),
     ub |-> Ov(w, beforeValue * DecimalFactor(p))]

\* decimal_st::pack(beforeValue, afterValue)
pack(w, p, beforeValue, afterValue) ==
    With(Mul(w, beforeValue, DecimalFactor(p)), LAMBDA scaled :
    With(Add(w, scaled.v, CMod(afterValue, DecimalFactor(p))), LAMBDA sum :
        IF p > 0 THEN [m_value |-> sum.v, ub |-> scaled.ub \/ sum.ub]
        ELSE [m_value |-> scaled.v, ub |-> scaled.ub]))

\* decimal_st::initWithPrec(value, precFactor)
initWithPrec(w, pol, p, value, precFactor) ==
    IF DecimalFactor(p) = precFactor THEN [m_value |-> value, ub |-> FALSE]
    ELSE With(round(w, pol,
                    FMul(w, ToFloat(w, value),
                         FDiv(w, ToFloat(w, DecimalFactor(p)),
                              ToFloat(w, precFactor)))), LAMBDA r :
             [m_value |-> r.v, ub |-> r.ub])

\* toStream(arg, output): the text written for a decimal_st<p> with raw m
toStream(w, p, m) ==
    With(unpack(w, p, m), LAMBDA u :
    With(IF u.before < 0 THEN Neg(w, u.before)
         ELSE [v |-> u.before, ub |-> FALSE], LAMBDA nb :
    With(IF u.after < 0 THEN Neg(w, u.after)
         ELSE [v |-> u.after, ub |-> FALSE], LAMBDA na :
    With(IF u.before < 0 \/ u.after < 0 THEN -1 ELSE 1, LAMBDA sign :
        [text |-> (IF sign < 0 THEN <<"-">> ELSE <<>>)
                  \o IntToText(nb.v)
                  \o (IF p > 0 THEN <<dec_point>> \o SetwFill(IntToText(na.v), p)
                      ELSE <<>>),
         ub |-> nb.ub \/ na.ub]))))

\* the locals of parse_unpacked before the loop
ParseStart ==
    [state |-> "IN_SIGN", sign |-> 1, before |-> 0, after |-> 0,
     digitsCount |-> 0, afterDigitCount |-> 0, error |-> 0,
     good |-> TRUE, pos |-> 0, ub |-> FALSE]

\* before = 10 * before + digit, or the same for after
Accumulate(w, acc, c) ==
    [v |-> Wrap(w, 10 * acc + DigitVal(c)),
     ub |-> Ov(w, 10 * acc) \/ Ov(w, Wrap(w, 10 * acc) + DigitVal(c))]

\* the switch of parse_unpacked for the character c
ParseSwitch(w, ps, c) ==
    CASE ps.state = "IN_SIGN" ->
           IF c = "-"
           THEN [ps EXCEPT !.sign = -1, !.state = "IN_BEFORE_FIRST_DIG"]
           ELSE IF c = "+" THEN [ps EXCEPT !.state = "IN_BEFORE_FIRST_DIG"]
           ELSE IF IsDigit(c)
           THEN [ps EXCEPT !.state = "IN_BEFORE_DEC", !.before = DigitVal(c),
                           !.digitsCount = @ + 1]
           ELSE IF c = dec_point THEN [ps EXCEPT !.state = "IN_AFTER_DEC"]
           ELSE IF c # " " /\ c # "\t"
           THEN [ps EXCEPT !.state = "IN_END", !.error = -1]
           ELSE ps
      [] ps.state = "IN_BEFORE_FIRST_DIG" ->
           IF IsDigit(c)
           THEN LET acc == Accumulate(w, ps.before, c)
                IN  [ps EXCEPT !.before = acc.v, !.state = "IN_BEFORE_DEC",
                               !.digitsCount = @ + 1, !.ub = @ \/ acc.ub]
           ELSE IF c = dec_point THEN [ps EXCEPT !.state = "IN_AFTER_DEC"]
           ELSE [ps EXCEPT !.state = "IN_END", !.error = -1]
      [] ps.state = "IN_BEFORE_DEC" ->
           IF IsDigit(c)
           THEN LET acc == Accumulate(w, ps.before, c)
                IN  [ps EXCEPT !.before = acc.v, !.digitsCount = @ + 1,
                               !.ub = @ \/ acc.ub]
           ELSE IF c = dec_point THEN [ps EXCEPT !.state = "IN_AFTER_DEC"]
           ELSE IF thousands_grouping /\ c = thousands_sep THEN ps
           ELSE [ps EXCEPT !.state = "IN_END"]
      [] ps.state = "IN_AFTER_DEC" ->
           IF IsDigit(c)
           THEN LET acc == Accumulate(w, ps.after, c)
                IN  [ps EXCEPT !.after = acc.v, !.afterDigitCount = @ + 1,
                               !.ub = @ \/ acc.ub,
                               !.state =
                                   IF ps.afterDigitCount + 1 >= max_decimal_points(w)
                                   THEN "IN_END" ELSE @]
           ELSE [ps EXCEPT !.state = "IN_END",
                           !.error = IF ps.digitsCount = 0 THEN -2 ELSE @]
      [] OTHER -> [ps EXCEPT !.state = "IN_END", !.error = -3]

RECURSIVE ParseLoop(_, _, _)
\* while ((input) && (state != IN_END)) { c = input.get(); switch ... }
ParseLoop(w, txt, ps) ==
    IF ps.good /\ ps.state # "IN_END"
    THEN IF ps.pos < Len(txt)
         THEN ParseLoop(w, txt,
                        [ParseSwitch(w, ps, txt[ps.pos + 1]) EXCEPT !.pos = @ + 1])
         ELSE ParseLoop(w, txt,
                        [ParseSwitch(w, ps, EofChar) EXCEPT !.good = FALSE])
    ELSE ps

\* details::parse_unpacked(input, sign, before, after, decimalDigits)
parse_unpacked(w, txt) ==
    With(ParseLoop(w, txt, ParseStart), LAMBDA ps :
    With(IF ps.sign < 0 THEN Neg(w, ps.before)
         ELSE [v |-> ps.before, ub |-> FALSE], LAMBDA nb :
    With(IF ps.sign < 0 THEN Neg(w, ps.after)
         ELSE [v |-> ps.after, ub |-> FALSE], LAMBDA na :
        IF ps.error >= 0
        THEN [ok |-> TRUE, sign |-> ps.sign, before |-> nb.v, after |-> na.v,
              decimalDigits |-> ps.afterDigitCount, pos |-> ps.pos,
              ub |-> ps.ub \/ nb.ub \/ na.ub]
        ELSE [ok |-> FALSE, sign |-> ps.sign, before |-> 0, after |-> 0,
              decimalDigits |-> ps.afterDigitCount, pos |-> ps.pos,
              ub |-> ps.ub])))

\* the exact value x * 10^n formed by n multiplications by ten
TimesTen(w, x, n) == [v |-> Wrap(w, x * 10^n), ub |-> Ov(w, x * 10^n)]

\* fromStream, direct mode: pad after to p digits and pack
fromStreamDirect(w, p, pu) ==
    With(TimesTen(w, pu.after, p - pu.decimalDigits), LAMBDA padded :
    With(pack(w, p, pu.before, padded.v), LAMBDA packed :
        [ok |-> TRUE, m_value |-> packed.m_value, pos |-> pu.pos,
         ub |-> pu.ub \/ padded.ub \/ packed.ub]))

\* fromStream, rounding mode: decimal_type temp(before + after, decimalFactor)
fromStreamRounding(w, pol, p, pu) ==
    With(TimesTen(w, pu.before, pu.decimalDigits), LAMBDA shifted :
    With(Add(w, shifted.v, pu.after), LAMBDA sum :
    With(initWithPrec(w, pol, p, sum.v, 10^pu.decimalDigits), LAMBDA temp :
        [ok |-> TRUE, m_value |-> temp.m_value, pos |-> pu.pos,
         ub |-> pu.ub \/ shifted.ub \/ sum.ub \/ temp.ub])))

\* the two packing modes applied to whatever parse_unpacked left
fromStreamUnchecked(w, pol, p, txt) ==
    With(parse_unpacked(w, txt), LAMBDA pu :
        IF pu.decimalDigits <= p THEN fromStreamDirect(w, p, pu)
        ELSE fromStreamRounding(w, pol, p, pu))

\* fromStream(input, output) for a decimal_st<p> with rounding policy pol
fromStream(w, pol, p, txt) ==
    With(parse_unpacked(w, txt), LAMBDA pu :
        IF ~pu.ok
        THEN [ok |-> FALSE, m_value |-> 0, pos |-> pu.pos, ub |-> pu.ub]
        ELSE IF pu.decimalDigits <= p THEN fromStreamDirect(w, p, pu)
        ELSE fromStreamRounding(w, pol, p, pu))

---------------------------------------------------------------------------
(* Specification of the text codec: a decimal_st is written with toStream  *)
(* and the text read back with fromStream; fromStream is also given texts  *)
(* that no toStream produced                                               *)

Alphabet == {"-", "+", ".", " ", "0", "5", "9", "x"}
\* raw values that the output decimal holds before it is read into
PriorValues == {0, 7}
Texts == UNION {[1..n -> Alphabet] : n \in 0..MaxTextLen}

InitCodec ==
    /\ policy \in Policies
    /\ kind = "decimal_st"
    /\ m_prec \in 0..max_decimal_points(CodecWidth)
    \* either a decimal to be written, or a text supplied by the caller and
    \* read into a decimal of the default policy
    /\ \/ /\ pc = "call"
          /\ m_value \in int64(CodecWidth)
          /\ text = <<>>
       \/ /\ pc = "written"
          /\ m_value = 0
          /\ policy = "def"
          /\ text \in Texts
    /\ \/ /\ pc = "call"
          /\ parsed = 0
       \/ /\ pc = "written"
          /\ parsed \in PriorValues
    \* the raw value of the decimal that the call works on
    /\ old_value = IF pc = "call" THEN m_value ELSE parsed
    /\ op = "none"
    /\ rhs = 0
    /\ ret = 0
    /\ consumed = 0
    /\ parse_ok = FALSE
    /\ scan = NoScan
    /\ ub = FALSE
    /\ IdleRound
    /\ IdleMultDiv
    /\ IdleMember

\* toStream(arg, output) / toString(arg)
ToStream ==
    /\ pc = "call"
    /\ \E r \in {toStream(CodecWidth, m_prec, m_value)} :
           \/ /\ pc' = "written"
              /\ text' = r.text
              /\ ub' = r.ub
           \/ /\ r.ub
              /\ pc' = "trapped"
              /\ ub' = TRUE
              /\ UNCHANGED text
    /\ op' = "toStream"
    /\ UNCHANGED <<policy, kind, m_prec, m_value, old_value, rhs, ret,
                   consumed, parsed, parse_ok, scan, roundVars, multDivVars,
                   memberVars>>

\* fromStream(input, output) / fromString(str)
FromStream ==
    /\ pc = "written"
    /\ \E r \in {fromStream(CodecWidth, policy, m_prec, text)} :
           \/ /\ pc' = "returned"
              /\ parsed' = r.m_value
              /\ parse_ok' = r.ok
              /\ consumed' = r.pos
              /\ ub' = (ub \/ r.ub)
           \/ /\ r.ub
              /\ pc' = "trapped"
              /\ ub' = TRUE
              /\ UNCHANGED <<parsed, parse_ok, consumed>>
    /\ UNCHANGED <<policy, kind, m_prec, m_value, old_value, op, rhs, ret,
                   text, scan, roundVars, multDivVars, memberVars>>

\* operator>>(is, d): if (!fromStream(is, d)) d.setUnbiased(0);
OperatorExtract ==
    /\ pc = "written"
    /\ \E r \in {fromStream(CodecWidth, policy, m_prec, text)} :
           \/ /\ pc' = "returned"
              /\ parsed' = IF r.ok THEN r.m_value ELSE 0
              /\ parse_ok' = r.ok
              /\ consumed' = r.pos
              /\ ub' = (ub \/ r.ub)
           \/ /\ r.ub
              /\ pc' = "trapped"
              /\ ub' = TRUE
              /\ UNCHANGED <<parsed, parse_ok, consumed>>
    /\ op' = "operator>>"
    /\ UNCHANGED <<policy, kind, m_prec, m_value, old_value, rhs, ret,
                   text, scan, roundVars, multDivVars, memberVars>>

NextCodec ==
    \/ ToStream
    \/ FromStream
    \/ OperatorExtract

SpecCodec == InitCodec /\ [][NextCodec]_vars

---------------------------------------------------------------------------
(* sign, abs, unpack and pack of both classes (fixed.h) *)

\* int64 operator- / -=
Sub(w, x, y) == [v |-> Wrap(w, x - y), ub |-> Ov(w, x - y)]

\* decimal_st::sign / decimal_rt::sign
sign(m) == IF m > 0 THEN 1 ELSE IF m < 0 THEN -1 ELSE 0

\* decimal_st::init(int value), reached from decimal_st(int value)
st_init(w, p, value) ==
    With(Mul(w, DecimalFactor(p), value), LAMBDA scaled :
        [m_value |-> scaled.v, ub |-> scaled.ub])

\* decimal_st::abs: (decimal_st<Prec>(0) - *this) for a negative value
st_abs(w, p, m) ==
    IF m >= 0 THEN [m_value |-> m, ub |-> FALSE]
    ELSE With(st_init(w, p, 0), LAMBDA zero :
         With(Sub(w, zero.m_value, m), LAMBDA diff :
             [m_value |-> diff.v, ub |-> zero.ub \/ diff.ub]))

\* decimal_rt::abs: -(*this) for a negative value
rt_abs(w, m) ==
    IF m >= 0 THEN [m_value |-> m, ub |-> FALSE]
    ELSE With(Neg(w, m), LAMBDA negated :
             [m_value |-> negated.v, ub |-> negated.ub])

InitMember == InitDecimalAt(MemberWidth)

\* the member function `name` returned the decimal or integer r
Answered(name, r) ==
    /\ op' = name
    /\ \/ /\ pc' = "returned"
          /\ ret' = r.m_value
          /\ ub' = r.ub
       \/ /\ r.ub
          /\ pc' = "trapped"
          /\ ub' = TRUE
          /\ UNCHANGED ret
    /\ UNCHANGED <<policy, kind, m_prec, m_value, old_value, rhs, roundVars,
                   multDivVars, codecVars, memberVars>>

\* decimal_st::sign()
StSign ==
    /\ pc = "call"
    /\ kind = "decimal_st"
    /\ Answered("sign", [m_value |-> sign(m_value), ub |-> FALSE])

\* decimal_rt::sign()
RtSign ==
    /\ pc = "call"
    /\ kind = "decimal_rt"
    /\ Answered("sign", [m_value |-> sign(m_value), ub |-> FALSE])

\* decimal_st::abs()
StAbs ==
    /\ pc = "call"
    /\ kind = "decimal_st"
    /\ Answered("abs", st_abs(MemberWidth, m_prec, m_value))

\* decimal_rt::abs()
RtAbs ==
    /\ pc = "call"
    /\ kind = "decimal_rt"
    /\ Answered("abs", rt_abs(MemberWidth, m_value))

\* conversion of an int64 to uint64_t
Unsigned(w, x) == x % (2^w)

\* uint64_t operator/ and operator%, the result stored in an int64
UDiv(w, x, y) ==
    IF Unsigned(w, y) = 0 THEN [v |-> 0, ub |-> TRUE]
    ELSE [v |-> Wrap(w, Unsigned(w, x) \div Unsigned(w, y)), ub |-> FALSE]
UMod(w, x, y) ==
    IF Unsigned(w, y) = 0 THEN [v |-> 0, ub |-> TRUE]
    ELSE [v |-> Wrap(w, Unsigned(w, x) % Unsigned(w, y)), ub |-> FALSE]

\* the rest of decimal_rt::unpack once factor and afterValue are known
rt_unpack_before(w, m, factor, afterValue) ==
    With(Sub(w, m, afterValue.v), LAMBDA diff :
    With(UDiv(w, diff.v, factor.v), LAMBDA quotient :
        [before |-> quotient.v, after |-> afterValue.v,
         ub |-> factor.ub \/ afterValue.ub \/ diff.ub \/ quotient.ub]))

\* decimal_rt::unpack(beforeValue, afterValue): factor is a uint64_t, so
\* m_value % factor and (m_value - afterValue) / factor are unsigned
rt_unpack(w, p, m, stray) ==
    With(getPrecFactorInt64(w, p, stray), LAMBDA factor :
        rt_unpack_before(w, m, factor, UMod(w, m, factor.v)))

\* decimal_rt::pack(beforeValue, afterValue): beforeValue * factor and
\* afterValue % factor are unsigned, m_value takes the low bits
rt_pack(w, p, beforeValue, afterValue, stray) ==
    With(getPrecFactorInt64(w, p, stray), LAMBDA factor :
    With(UMod(w, afterValue, factor.v), LAMBDA rest :
        IF p > 0
        THEN [m_value |-> Wrap(w, beforeValue * factor.v + rest.v),
              ub |-> factor.ub \/ rest.ub]
        ELSE [m_value |-> Wrap(w, beforeValue * factor.v), ub |-> factor.ub]))

\* unpack wrote u.before and u.after through its two references
Unpacked(u) ==
    /\ op' = "unpack"
    /\ \/ /\ pc' = "unpacked"
          /\ before' = u.before
          /\ after' = u.after
          /\ ub' = u.ub
       \/ /\ u.ub
          /\ pc' = "trapped"
          /\ ub' = TRUE
          /\ UNCHANGED <<before, after>>
    /\ UNCHANGED <<policy, kind, m_prec, m_value, old_value, rhs, ret,
                   other_prec, other_value, mantissa, exponent, roundVars,
                   multDivVars, codecVars>>

\* pack stored r.m_value in *this
Packed(r) ==
    /\ op' = "pack"
    /\ \/ /\ pc' = "returned"
          /\ m_value' = r.m_value
          /\ ub' = (ub \/ r.ub)
       \/ /\ r.ub
          /\ pc' = "trapped"
          /\ ub' = TRUE
          /\ UNCHANGED m_value
    /\ UNCHANGED <<policy, kind, m_prec, old_value, rhs, ret, roundVars,
                   multDivVars, codecVars, memberVars>>

\* decimal_st::unpack(beforeValue, afterValue)
StUnpack ==
    /\ pc = "call"
    /\ kind = "decimal_st"
    /\ \E u \in {unpack(MemberWidth, m_prec, m_value)} :
           Unpacked([before |-> u.before, after |-> u.after, ub |-> FALSE])

\* decimal_rt::unpack(beforeValue, afterValue)
RtUnpack ==
    /\ pc = "call"
    /\ kind = "decimal_rt"
    /\ \E stray \in StrayWords(MemberWidth) :
           Unpacked(rt_unpack(MemberWidth, m_prec, m_value, stray))

\* decimal_st::pack(beforeValue, afterValue) with the pair that unpack gave
StPack ==
    /\ pc = "unpacked"
    /\ kind = "decimal_st"
    /\ Packed(pack(MemberWidth, m_prec, before, after))

\* decimal_rt::pack(beforeValue, afterValue) with the pair that unpack gave
RtPack ==
    /\ pc = "unpacked"
    /\ kind = "decimal_rt"
    /\ \E stray \in StrayWords(MemberWidth) :
           Packed(rt_pack(MemberWidth, m_prec, before, after, stray))

\* decimal_rt::getPrecFactor(): getPrecFactorInt64(m_prec)
RtGetPrecFactor ==
    /\ pc = "call"
    /\ kind = "decimal_rt"
    /\ \E stray \in StrayWords(MemberWidth) :
           \E f \in {getPrecFactorInt64(MemberWidth, m_prec, stray)} :
               Answered("getPrecFactor", [m_value |-> f.v, ub |-> f.ub])

NextMember ==
    \/ RtGetPrecFactor
    \/ StSign
    \/ RtSign
    \/ StAbs
    \/ RtAbs
    \/ StUnpack
    \/ RtUnpack
    \/ StPack
    \/ RtPack

SpecMember == InitMember /\ [][NextMember]_vars

---------------------------------------------------------------------------
(* decimal_rt::operator+, operator+=, operator-, operator-= (fixed.h) *)

\* the int argument of getPrecFactorInt64 formed from the int64 difference
\* x - y
PrecArgument(w, x, y) ==
    With(Sub(w, x, y), LAMBDA diff :
        [v |-> Wrap(w \div 2, diff.v), ub |-> diff.ub])

\* other.m_prec > m_prec: val of
\* div_rounded(val, other.getUnbiased(),
\*             getPrecFactorInt64(other.m_value - this->m_value))
rt_other_divided(w, pol, m, n, stray) ==
    With(PrecArgument(w, n, m), LAMBDA idx :
    With(getPrecFactorInt64(w, idx.v, stray), LAMBDA factor :
    With(div_rounded(w, pol, n, factor.v), LAMBDA dr :
        [v |-> dr.output, ub |-> idx.ub \/ factor.ub \/ dr.ub])))

\* other.m_prec < m_prec:
\* other.getUnbiased() * getPrecFactorInt64(this->m_value - other.m_value)
rt_other_multiplied(w, m, n, stray) ==
    With(PrecArgument(w, m, n), LAMBDA idx :
    With(getPrecFactorInt64(w, idx.v, stray), LAMBDA factor :
    With(Mul(w, n, factor.v), LAMBDA scaled :
        [v |-> scaled.v, ub |-> idx.ub \/ factor.ub \/ scaled.ub])))

\* the amount that the operators add to or subtract from m_value, for *this
\* with m_prec p and m_value m and other with m_prec q and m_value n
rt_other(w, pol, p, m, q, n, stray) ==
    IF q > p THEN rt_other_divided(w, pol, m, n, stray)
    ELSE IF q = p THEN [v |-> n, ub |-> FALSE]
    ELSE rt_other_multiplied(w, m, n, stray)

\* decimal_rt::operator+ and operator+=
rt_add(w, pol, p, m, q, n, stray) ==
    With(rt_other(w, pol, p, m, q, n, stray), LAMBDA o :
    With(Add(w, m, o.v), LAMBDA sum :
        [m_value |-> sum.v, ub |-> o.ub \/ sum.ub]))

\* decimal_rt::operator- and operator-=
rt_sub(w, pol, p, m, q, n, stray) ==
    With(rt_other(w, pol, p, m, q, n, stray), LAMBDA o :
    With(Sub(w, m, o.v), LAMBDA diff :
        [m_value |-> diff.v, ub |-> o.ub \/ diff.ub]))

\* the raw values of the operands
Operands(w) ==
    (-MaxOperand..MaxOperand) \cup {DEC_MIN_INT64(w), DEC_MAX_INT64(w)}

\* a decimal_rt with any policy, precision and one of the raw values
InitAddSub ==
    /\ pc = "call"
    /\ policy \in Policies
    /\ kind = "decimal_rt"
    /\ m_prec \in 0..max_decimal_points(AddSubWidth)
    /\ m_value \in Operands(AddSubWidth)
    /\ old_value = m_value
    /\ op = "none"
    /\ rhs = 0
    /\ ret = 0
    /\ ub = FALSE
    /\ IdleRound
    /\ IdleMultDiv
    /\ IdleCodec
    /\ IdleMember

\* the call `name` with the argument other (m_prec q, m_value n) gave r;
\* assign tells the compound assignment, which stores the result in *this
Combined(name, q, n, r, assign) ==
    /\ op' = name
    /\ other_prec' = q
    /\ other_value' = n
    /\ \/ /\ pc' = "returned"
          /\ ret' = r.m_value
          /\ m_value' = IF assign THEN r.m_value ELSE m_value
          /\ ub' = r.ub
       \/ /\ r.ub
          /\ pc' = "trapped"
          /\ ub' = TRUE
          /\ UNCHANGED <<ret, m_value>>
    /\ UNCHANGED <<policy, kind, m_prec, old_value, rhs, before, after,
                   mantissa, exponent, roundVars, multDivVars, codecVars>>

\* decimal_rt::operator+(const decimal_rt &other)
RtAdd ==
    /\ pc = "call"
    /\ \E q \in 0..max_decimal_points(AddSubWidth),
          n \in Operands(AddSubWidth), stray \in StrayWords(AddSubWidth) :
           Combined("operator+", q, n,
                    rt_add(AddSubWidth, policy, m_prec, m_value, q, n, stray),
                    FALSE)

\* decimal_rt::operator+=(const decimal_rt &other)
RtAddAssign ==
    /\ pc = "call"
    /\ \E q \in 0..max_decimal_points(AddSubWidth),
          n \in Operands(AddSubWidth), stray \in StrayWords(AddSubWidth) :
           Combined("operator+=", q, n,
                    rt_add(AddSubWidth, policy, m_prec, m_value, q, n, stray),
                    TRUE)

\* decimal_rt::operator-(const decimal_rt &other)
RtSub ==
    /\ pc = "call"
    /\ \E q \in 0..max_decimal_points(AddSubWidth),
          n \in Operands(AddSubWidth), stray \in StrayWords(AddSubWidth) :
           Combined("operator-", q, n,
                    rt_sub(AddSubWidth, policy, m_prec, m_value, q, n, stray),
                    FALSE)

\* decimal_rt::operator-=(const decimal_rt &other)
RtSubAssign ==
    /\ pc = "call"
    /\ \E q \in 0..max_decimal_points(AddSubWidth),
          n \in Operands(AddSubWidth), stray \in StrayWords(AddSubWidth) :
           Combined("operator-=", q, n,
                    rt_sub(AddSubWidth, policy, m_prec, m_value, q, n, stray),
                    TRUE)

NextAddSub ==
    \/ RtAdd
    \/ RtAddAssign
    \/ RtSub
    \/ RtSubAssign

SpecAddSub == InitAddSub /\ [][NextAddSub]_vars

---------------------------------------------------------------------------
(* Construction from an integer and assignment of an integer (fixed.h) *)

\* decimal_rt(int64 value, int prec) and decimal_rt(int value, int prec):
\* m_value(value), m_prec(prec)
rt_construct(value, prec) == [m_value |-> value, m_prec |-> prec]

\* decimal_rt::operator=(int64 rhs), operator=(int rhs) and
\* setAsInteger(int64 value): getPrecFactorInt64(m_prec) * value
rt_assign(w, p, value, stray) ==
    With(getPrecFactorInt64(w, p, stray), LAMBDA factor :
    With(Mul(w, factor.v, value), LAMBDA scaled :
        [m_value |-> scaled.v, ub |-> factor.ub \/ scaled.ub]))

\* the precisions a caller can hand to the constructor of decimal_rt
RequestedPrecisions(w) == -1..(max_decimal_points(w) + 1)

\* no decimal exists yet
InitConstruct ==
    /\ pc = "start"
    /\ policy \in Policies
    /\ ub = FALSE
    /\ IdleRound
    /\ IdleMultDiv
    /\ IdleDecimal
    /\ IdleCodec
    /\ IdleMember

\* the constructor of class k made a decimal of precision p from the integer v
Constructed(k, p, v, r) ==
    /\ kind' = k
    /\ m_prec' = p
    /\ rhs' = v
    /\ op' = "constructor"
    /\ \/ /\ pc' = "constructed"
          /\ m_value' = r.m_value
          /\ old_value' = r.m_value
          /\ ub' = r.ub
       \/ /\ r.ub
          /\ pc' = "trapped"
          /\ ub' = TRUE
          /\ UNCHANGED <<m_value, old_value>>
    /\ UNCHANGED <<policy, ret, roundVars, multDivVars, codecVars, memberVars>>

\* the member function `name` stored r, made from the integer v, in *this
Assigned(name, v, r) ==
    /\ rhs' = v
    /\ op' = name
    /\ \/ /\ pc' = "returned"
          /\ m_value' = r.m_value
          /\ ub' = r.ub
       \/ /\ r.ub
          /\ pc' = "trapped"
          /\ ub' = TRUE
          /\ UNCHANGED m_value
    /\ UNCHANGED <<policy, kind, m_prec, old_value, ret, roundVars,
                   multDivVars, codecVars, memberVars>>

\* decimal_st<Prec>(int value) and decimal_st<Prec>(int64 value)
StConstruct ==
    /\ pc = "start"
    /\ \E p \in 0..max_decimal_points(ConstructWidth),
          v \in int(ConstructWidth) :
           Constructed("decimal_st", p, v, st_init(ConstructWidth, p, v))

\* decimal_rt(int value, int prec) and decimal_rt(int64 value, int prec)
RtConstruct ==
    /\ pc = "start"
    /\ \E p \in RequestedPrecisions(ConstructWidth),
          v \in int(ConstructWidth) :
           Constructed("decimal_rt", rt_construct(v, p).m_prec, v,
                       [m_value |-> rt_construct(v, p).m_value, ub |-> FALSE])

\* decimal_st::operator=(int rhs) and operator=(int64 rhs)
StAssign ==
    /\ pc = "constructed"
    /\ kind = "decimal_st"
    /\ \E v \in int(ConstructWidth) :
           Assigned("operator=", v, st_init(ConstructWidth, m_prec, v))

\* decimal_st::setAsInteger(int64 value)
StSetAsInteger ==
    /\ pc = "constructed"
    /\ kind = "decimal_st"
    /\ \E v \in int(ConstructWidth) :
           Assigned("setAsInteger", v, st_init(ConstructWidth, m_prec, v))

\* decimal_rt::operator=(int rhs) and operator=(int64 rhs)
RtAssign ==
    /\ pc = "constructed"
    /\ kind = "decimal_rt"
    /\ \E v \in int(ConstructWidth), stray \in StrayWords(ConstructWidth) :
           Assigned("operator=", v,
                    rt_assign(ConstructWidth, m_prec, v, stray))

\* decimal_rt::setAsInteger(int64 value)
RtSetAsInteger ==
    /\ pc = "constructed"
    /\ kind = "decimal_rt"
    /\ \E v \in int(ConstructWidth), stray \in StrayWords(ConstructWidth) :
           Assigned("setAsInteger", v,
                    rt_assign(ConstructWidth, m_prec, v, stray))

NextConstruct ==
    \/ StConstruct
    \/ RtConstruct
    \/ StAssign
    \/ StSetAsInteger
    \/ RtAssign
    \/ RtSetAsInteger

SpecConstruct == InitConstruct /\ [][NextConstruct]_vars

---------------------------------------------------------------------------
(* setWithExponent and getWithExponent of both classes (fixed.h) *)

\* a table of powers of ten that ends one entry before 10^max_decimal_points
pow10_short(w, n) ==
    IF n >= 0 /\ n < max_decimal_points(w) THEN 10^n ELSE 0

\* dec_utils::pow10(n): decimalFactorTable[n] for 0 <= n <= max_decimal_points,
\* otherwise 0
pow10(w, n) ==
    IF n >= 0 /\ n <= max_decimal_points(w) THEN 10^n ELSE 0

\* setWithExponent, exponentForPack < 0: div_rounded(newValue, mantissa,
\* pow10(-exponentForPack)), newValue = 0 when it returns false
setWithExponentDivided(w, pol, mant, exponentForPack) ==
    With(div_rounded(w, pol, mant, pow10(w, -exponentForPack)), LAMBDA dr :
        [m_value |-> IF dr.ok THEN dr.output ELSE 0, ub |-> dr.ub])

\* setWithExponent, exponentForPack >= 0: mantissa * pow10(exponentForPack)
setWithExponentMultiplied(w, mant, exponentForPack) ==
    With(Mul(w, mant, pow10(w, exponentForPack)), LAMBDA scaled :
        [m_value |-> scaled.v, ub |-> scaled.ub])

\* decimal_st::setWithExponent(mantissa, exponent) with Prec = p, and
\* decimal_rt::setWithExponent with m_prec = p
setWithExponent(w, pol, p, mant, e) ==
    IF e + p < 0 THEN setWithExponentDivided(w, pol, mant, e + p)
    ELSE setWithExponentMultiplied(w, mant, e + p)

RECURSIVE Normalize(_, _)
\* while (value % 10 == 0) { value /= 10; exp++; }
Normalize(value, exp) ==
    IF CMod(value, 10) = 0 THEN Normalize(CDiv(value, 10), exp + 1)
    ELSE [mantissa |-> value, exponent |-> exp]

\* decimal_st::getWithExponent(mantissa, exponent) with Prec = p, and
\* decimal_rt::getWithExponent with m_prec = p
getWithExponent(p, m) ==
    IF m # 0 THEN Normalize(m, -p)
    ELSE [mantissa |-> m, exponent |-> -p]

\* the exponents handed to setWithExponent by a caller
Exponents(w) == (-(2 * max_decimal_points(w) + 1))..(max_decimal_points(w) + 1)

\* either a decimal with any raw value, whose mantissa and exponent are to
\* be read, or a default-constructed one that is to be set
InitExponent ==
    /\ policy \in Policies
    /\ kind \in Kinds
    /\ m_prec \in 0..max_decimal_points(ExponentWidth)
    /\ \/ /\ pc = "call"
          /\ m_value \in int64(ExponentWidth)
       \/ /\ pc = "fresh"
          /\ m_value = 0
    /\ old_value = m_value
    /\ op = "none"
    /\ rhs = 0
    /\ ret = 0
    /\ ub = FALSE
    /\ IdleRound
    /\ IdleMultDiv
    /\ IdleCodec
    /\ IdleMember

\* getWithExponent wrote g.mantissa and g.exponent through its references
GotWithExponent(g) ==
    /\ pc' = "normalized"
    /\ op' = "getWithExponent"
    /\ mantissa' = g.mantissa
    /\ exponent' = g.exponent
    /\ UNCHANGED <<policy, ub, kind, m_prec, m_value, old_value, rhs, ret,
                   before, after, other_prec, other_value, roundVars,
                   multDivVars, codecVars>>

\* setWithExponent(mant, e) stored r.m_value in *this; the pair is the
\* caller's own on a fresh decimal, and else the one getWithExponent gave
SetWithExponentTo(mant, e, r) ==
    /\ op' = "setWithExponent"
    /\ mantissa' = mant
    /\ exponent' = e
    /\ \/ /\ pc' = IF pc = "fresh" THEN "returned" ELSE "restored"
          /\ m_value' = r.m_value
          /\ ub' = r.ub
       \/ /\ r.ub
          /\ pc' = IF pc = "fresh" THEN "trapped" ELSE "trapped restoring"
          /\ ub' = TRUE
          /\ UNCHANGED m_value
    /\ UNCHANGED <<policy, kind, m_prec, old_value, rhs, ret, before, after,
                   other_prec, other_value, roundVars, multDivVars, codecVars>>

\* decimal_st::getWithExponent(mantissa, exponent)
StGetWithExponent ==
    /\ pc = "call"
    /\ kind = "decimal_st"
    /\ GotWithExponent(getWithExponent(m_prec, m_value))

\* decimal_rt::getWithExponent(mantissa, exponent)
RtGetWithExponent ==
    /\ pc = "call"
    /\ kind = "decimal_rt"
    /\ GotWithExponent(getWithExponent(m_prec, m_value))

\* decimal_st::setWithExponent(mantissa, exponent)
StSetWithExponent ==
    /\ pc \in {"fresh", "normalized"}
    /\ kind = "decimal_st"
    /\ \E mant \in IF pc = "fresh" THEN int64(ExponentWidth) ELSE {mantissa},
          e \in IF pc = "fresh" THEN Exponents(ExponentWidth) ELSE {exponent} :
           SetWithExponentTo(mant, e,
               setWithExponent(ExponentWidth, policy, m_prec, mant, e))

\* decimal_rt::setWithExponent(mantissa, exponent)
RtSetWithExponent ==
    /\ pc \in {"fresh", "normalized"}
    /\ kind = "decimal_rt"
    /\ \E mant \in IF pc = "fresh" THEN int64(ExponentWidth) ELSE {mantissa},
          e \in IF pc = "fresh" THEN Exponents(ExponentWidth) ELSE {exponent} :
           SetWithExponentTo(mant, e,
               setWithExponent(ExponentWidth, policy, m_prec, mant, e))

NextExponent ==
    \/ StGetWithExponent
    \/ RtGetWithExponent
    \/ StSetWithExponent
    \/ RtSetWithExponent

SpecExponent == InitExponent /\ [][NextExponent]_vars

---------------------------------------------------------------------------
(* decimal<Prec>: assignment, sum and difference across precisions *)

\* DecimalFactorDiff<diff>::value; a negative diff gives the placeholder of
\* the branch that is not taken
DecimalFactorDiff(w, diff) ==
    IF diff >= 0 THEN 10 ^ diff ELSE DEC_MIN_INT64(w)

\* the raw value n of a decimal<q> brought to the precision p:
\* div_rounded(val, rhs.getUnbiased(), DecimalFactorDiff<q - p>::value) when
\* q > p, whose returned bool is not looked at, and
\* rhs.getUnbiased() * DecimalFactorDiff<p - q>::value otherwise
st_other(w, pol, p, q, n) ==
    IF q > p
    THEN With(div_rounded(w, pol, n, DecimalFactorDiff(w, q - p)), LAMBDA d :
             [v |-> d.output, ub |-> d.ub])
    ELSE Mul(w, n, DecimalFactorDiff(w, p - q))

\* the raw value of rhs stored as it is, whatever the two precisions are
st_assign_raw(w, pol, p, q, n) == [m_value |-> n, ub |-> FALSE]

\* decimal<p>::operator=(const decimal<q> &rhs): the raw value stored
st_assign_decimal(w, pol, p, q, n) ==
    IF q = p THEN [m_value |-> n, ub |-> FALSE]
    ELSE With(st_other(w, pol, p, q, n), LAMBDA o :
             [m_value |-> o.v, ub |-> o.ub])

\* decimal<p>::operator+(const decimal<q> &rhs): the raw value of the result
st_add(w, pol, p, m, q, n) ==
    With(IF q = p THEN [v |-> n, ub |-> FALSE]
         ELSE st_other(w, pol, p, q, n), LAMBDA o :
    With(Add(w, m, o.v), LAMBDA s :
        [m_value |-> s.v, ub |-> o.ub \/ s.ub]))

\* decimal<p>::operator-(const decimal<q> &rhs): the raw value of the result
st_sub(w, pol, p, m, q, n) ==
    With(IF q = p THEN [v |-> n, ub |-> FALSE]
         ELSE st_other(w, pol, p, q, n), LAMBDA o :
    With(Sub(w, m, o.v), LAMBDA s :
        [m_value |-> s.v, ub |-> o.ub \/ s.ub]))

\* a decimal<P> and a second decimal<Q> of the same policy
InitCross ==
    /\ pc = "call"
    /\ policy \in Policies
    /\ kind = "decimal_st"
    /\ m_prec \in 0..max_decimal_points(CrossWidth)
    /\ m_value \in Operands(CrossWidth)
    /\ old_value = m_value
    /\ other_prec \in 0..max_decimal_points(CrossWidth)
    /\ other_value \in Operands(CrossWidth)
    /\ op = "none"
    /\ rhs = 0
    /\ ret = 0
    /\ ub = FALSE
    /\ before = 0
    /\ after = 0
    /\ mantissa = 0
    /\ exponent = 0
    /\ IdleRound
    /\ IdleMultDiv
    /\ IdleCodec

\* the operator `name` applied to *this and the second decimal gave r
CrossCombined(name, r) ==
    /\ op' = name
    /\ \/ /\ pc' = "returned"
          /\ ret' = r.m_value
          /\ ub' = r.ub
       \/ /\ r.ub
          /\ pc' = "trapped"
          /\ ub' = TRUE
          /\ UNCHANGED ret
    /\ UNCHANGED <<policy, kind, m_prec, m_value, old_value, rhs, memberVars,
                   roundVars, multDivVars, codecVars>>

\* decimal<P>::operator+(const decimal<Q> &rhs)
StAdd ==
    /\ pc = "call"
    /\ CrossCombined("operator+",
           st_add(CrossWidth, policy, m_prec, m_value, other_prec, other_value))

\* decimal<P>::operator-(const decimal<Q> &rhs)
StSub ==
    /\ pc = "call"
    /\ CrossCombined("operator-",
           st_sub(CrossWidth, policy, m_prec, m_value, other_prec, other_value))

\* other = *this: decimal<Q>::operator=(const decimal<P> &rhs)
StAssignTo ==
    /\ pc = "call"
    /\ \E r \in {st_assign_decimal(CrossWidth, policy, other_prec, m_prec,
                                   m_value)} :
           \/ /\ pc' = "assigned"
              /\ other_value' = r.m_value
              /\ ub' = r.ub
           \/ /\ r.ub
              /\ pc' = "trapped"
              /\ ub' = TRUE
              /\ UNCHANGED other_value
    /\ op' = "operator="
    /\ UNCHANGED <<policy, kind, m_prec, m_value, old_value, rhs, ret,
                   other_prec, before, after, mantissa, exponent,
                   roundVars, multDivVars, codecVars>>

\* *this = other: decimal<P>::operator=(const decimal<Q> &rhs)
StAssignFrom ==
    /\ pc = "assigned"
    /\ \E r \in {st_assign_decimal(CrossWidth, policy, m_prec, other_prec,
                                   other_value)} :
           \/ /\ pc' = "assigned back"
              /\ m_value' = r.m_value
              /\ ub' = (ub \/ r.ub)
           \/ /\ r.ub
              /\ pc' = "trapped"
              /\ ub' = TRUE
              /\ UNCHANGED m_value
    /\ UNCHANGED <<policy, kind, m_prec, old_value, op, rhs, ret, memberVars,
                   roundVars, multDivVars, codecVars>>

NextCross ==
    \/ StAdd
    \/ StSub
    \/ StAssignTo
    \/ StAssignFrom

SpecCross == InitCross /\ [][NextCross]_vars

---------------------------------------------------------------------------
(* decimal<Prec>: the quotient of two decimals of the same precision *)

\* the quotient of the two raw values, not scaled by the precision factor
st_div_unscaled(w, pol, p, m, n) == multDiv(w, pol, m, 1, n)

\* decimal<p>::operator/(const decimal<p> &rhs): the raw value of the result
st_div(w, pol, p, m, n) == multDiv(w, pol, m, DecimalFactor(p), n)

\* the raw values of the sample in the header of fixed.h and small ones
Dividends == {143125, -143125} \cup (-MaxOperand..MaxOperand)
Divisors == ({333, -333} \cup (-MaxOperand..MaxOperand)) \ {0}

\* a decimal<P> and a divisor of the same precision and policy
InitQuotient ==
    /\ pc = "call"
    /\ policy \in Policies
    /\ kind = "decimal_st"
    /\ m_prec \in 0..2
    \* the lowest value only at precision 0, where the scaled operands fit
    /\ m_value \in Dividends \cup (IF m_prec = 0
                                   THEN {DEC_MIN_INT64(QuotientWidth)}
                                   ELSE {})
    /\ old_value = m_value
    /\ other_prec = m_prec
    /\ other_value \in Divisors
    /\ op = "none"
    /\ rhs = 0
    /\ ret = 0
    /\ ub = FALSE
    /\ before = 0
    /\ after = 0
    /\ mantissa = 0
    /\ exponent = 0
    /\ IdleRound
    /\ IdleMultDiv
    /\ IdleCodec

\* decimal<P>::operator/(const decimal<P> &rhs)
StDivDecimal ==
    /\ pc = "call"
    /\ \E r \in {st_div(QuotientWidth, policy, m_prec, m_value, other_value)} :
           \/ /\ pc' = "returned"
              /\ ret' = r.result
              /\ ub' = r.ub
           \/ /\ r.ub
              /\ pc' = "trapped"
              /\ ub' = TRUE
              /\ UNCHANGED ret
    /\ op' = "operator/"
    /\ UNCHANGED <<policy, kind, m_prec, m_value, old_value, rhs, memberVars,
                   roundVars, multDivVars, codecVars>>

NextQuotient == StDivDecimal

SpecQuotient == InitQuotient /\ [][NextQuotient]_vars

---------------------------------------------------------------------------
(* Specification of the scanner: parse_unpacked taken one character at a   *)
(* time                                                                    *)

\* (input) alone: the loop goes on for as long as the stream is good
StreamGood(ps) == ps.good

\* the condition of the loop: (input) && (state != IN_END)
LoopCondition(ps) == ps.good /\ ps.state # "IN_END"

\* one pass through the loop in which a space or a tab is only extracted
ParseIterationSkipping(w, txt, ps) ==
    IF ps.pos < Len(txt) /\ txt[ps.pos + 1] \in {" ", "\t"}
    THEN [ps EXCEPT !.pos = @ + 1]
    ELSE IF ps.pos < Len(txt)
    THEN [ParseSwitch(w, ps, txt[ps.pos + 1]) EXCEPT !.pos = @ + 1]
    ELSE [ParseSwitch(w, ps, EofChar) EXCEPT !.good = FALSE]

\* one pass through the loop: c = input.get(); switch (state) { ... }
ParseIteration(w, txt, ps) ==
    IF ps.pos < Len(txt)
    THEN [ParseSwitch(w, ps, txt[ps.pos + 1]) EXCEPT !.pos = @ + 1]
    ELSE [ParseSwitch(w, ps, EofChar) EXCEPT !.good = FALSE]

ScanAlphabet == {"-", "+", ".", " ", "\t", "5", "x"}
ScanTexts == UNION {[1..n -> ScanAlphabet] : n \in 0..MaxScanLen}

\* parse_unpacked has been called on a stream holding the text
InitScan ==
    /\ pc = "scanning"
    /\ policy = "def"
    /\ text \in ScanTexts
    /\ scan = ParseStart
    /\ consumed = 0
    /\ parsed = 0
    /\ parse_ok = FALSE
    /\ ub = FALSE
    /\ IdleRound
    /\ IdleMultDiv
    /\ IdleDecimal
    /\ IdleMember

\* the body of the loop of parse_unpacked, once
ScanStep ==
    /\ pc = "scanning"
    /\ LoopCondition(scan)
    /\ \E ps \in {ParseIteration(ScanWidth, text, scan)} :
           \/ /\ pc' = "scanning"
              /\ scan' = ps
              /\ ub' = ps.ub
           \/ /\ ps.ub
              /\ pc' = "trapped"
              /\ ub' = TRUE
              /\ UNCHANGED scan
    /\ UNCHANGED <<policy, text, consumed, parsed, parse_ok, before, after,
                   other_prec, other_value, mantissa, exponent, roundVars,
                   multDivVars, decimalVars>>

\* the loop is left: decimalDigits, the sign applied to before and after,
\* and the returned bool
ScanReturn ==
    /\ pc = "scanning"
    /\ ~LoopCondition(scan)
    /\ \E r \in {parse_unpacked(ScanWidth, text)} :
           \/ /\ pc' = "scanned"
              /\ parse_ok' = r.ok
              /\ before' = r.before
              /\ after' = r.after
              /\ consumed' = r.pos
              /\ ub' = r.ub
           \/ /\ r.ub
              /\ pc' = "trapped"
              /\ ub' = TRUE
              /\ UNCHANGED <<parse_ok, before, after, consumed>>
    /\ UNCHANGED <<policy, text, parsed, scan, other_prec, other_value,
                   mantissa, exponent, roundVars, multDivVars, decimalVars>>

NextScan ==
    \/ ScanStep
    \/ ScanReturn

SpecScan == InitScan /\ [][NextScan]_vars

---------------------------------------------------------------------------
(* Exact integer arithmetic used to state the properties *)

FloorDiv(x, y) == IF y > 0 THEN x \div y ELSE (-x) \div (-y)
CeilDiv(x, y) == -FloorDiv(-x, y)
ExactDiv(x, y) == CMod(x, y) = 0
\* toward zero and away from zero
TowardZero(x, y) == CDiv(x, y)
AwayFromZero(x, y) ==
    IF ExactDiv(x, y) THEN CDiv(x, y)
    ELSE IF (x < 0) = (y < 0) THEN CDiv(x, y) + 1 ELSE CDiv(x, y) - 1
\* x / y lies exactly half-way between two integers
HalfWay(x, y) == 2 * AbsVal(CMod(x, y)) = AbsVal(y)
\* the integer nearest to x / y when x / y is not half-way
Nearest(x, y) == FloorDiv(2 * x + y, 2 * y)
NearestTiesAway(x, y) == IF HalfWay(x, y) THEN AwayFromZero(x, y) ELSE Nearest(x, y)
NearestTiesEven(x, y) ==
    IF HalfWay(x, y)
    THEN IF FloorDiv(x, y) % 2 = 0 THEN FloorDiv(x, y) ELSE CeilDiv(x, y)
    ELSE Nearest(x, y)
\* the documented result of each policy
Documented(pol, x, y) ==
    CASE pol = "def"        -> NearestTiesAway(x, y)
      [] pol = "half_down"  -> IF HalfWay(x, y) THEN FloorDiv(x, y) ELSE Nearest(x, y)
      [] pol = "half_up"    -> IF HalfWay(x, y) THEN CeilDiv(x, y) ELSE Nearest(x, y)
      [] pol = "half_even"  -> NearestTiesEven(x, y)
      [] pol = "ceiling"    -> CeilDiv(x, y)
      [] pol = "floor"      -> FloorDiv(x, y)
      [] pol = "round_down" -> TowardZero(x, y)
      [] pol = "round_up"   -> AwayFromZero(x, y)

NearestPolicies == {"def", "half_down", "half_up", "half_even"}
DirectedPolicies == {"ceiling", "floor", "round_down", "round_up"}

---------------------------------------------------------------------------
(* Claims about the rounding policies, checked under SpecRound *)

\* C4: at an exact half-way remainder (|a % b| = |b|/2, b even, b of either
\* sign) every nearest-type policy returns its documented direction: default
\* away from zero, half-down toward -infinity, half-up toward +infinity,
\* half-even the even quotient.  Stated for the calls that succeed without
\* undefined behaviour.
C4_TieBreakConformance ==
    (pc = "returned" /\ ~ub /\ ok /\ policy \in NearestPolicies /\ HalfWay(a, b))
        => output = Documented(policy, a, b)

\* C5: for b > 0 and a / b not half-way, every nearest-type policy that does
\* not signal overflow returns the integer nearest to a / b.
C5_NearestOffTies ==
    (pc = "returned" /\ ~ub /\ ok /\ policy \in NearestPolicies
        /\ b > 0 /\ ~HalfWay(a, b))
        => output = Nearest(a, b)

\* C6: with all intermediate values in range, ceiling returns the smallest
\* integer >= a/b, floor the largest integer <= a/b, round-down a/b toward
\* zero and round-up a/b away from zero, for nonzero b of either sign.
C6_DirectedPolicies ==
    (pc = "returned" /\ ~ub /\ policy \in DirectedPolicies)
        => (ok /\ output = Documented(policy, a, b))

\* a + |b|/2 (a >= 0) or a - |b|/2 (a < 0) leaves the signed storage range
CorrectionLeavesRange(w, x, y) ==
    IF x >= 0 THEN Ov(w, x + AbsVal(y) \div 2) ELSE Ov(w, x - AbsVal(y) \div 2)

\* C7: the default, half-down and half-up policies return (0, false) exactly
\* when adding or subtracting |b|/2 would leave the storage range, and in every
\* other case return true without evaluating an out-of-range value.
C7_OverflowSignalling ==
    (pc # "call" /\ policy \in {"def", "half_down", "half_up"})
        => IF CorrectionLeavesRange(Width, a, b)
           THEN pc = "returned" /\ ~ok /\ output = 0
           ELSE pc = "returned" /\ ok /\ ~ub

\* C8: ceiling, floor, round-down and round-up always return true and never
\* form a sum or difference outside the storage range, so the result is the
\* correctly rounded quotient also for a close to the minimum or maximum.
\* Stated for b > 0 and a above the minimum, where sums and differences are
\* the only expressions that can overflow.
C8_DirectedAlwaysSucceed ==
    (pc # "call" /\ policy \in DirectedPolicies /\ b > 0 /\ a > DEC_MIN_INT64(Width))
        => (pc = "returned" /\ ok /\ ~ub /\ output = Documented(policy, a, b))

---------------------------------------------------------------------------
(* Claims about multDiv, checked under SpecMultDiv *)

\* C2: under the default policy, whenever value1 * value2 fits the storage
\* type, multDiv returns value1 * value2 / divisor computed in unbounded
\* arithmetic and rounded to nearest with ties away from zero.  Stated for the
\* calls that return without undefined behaviour.
C2_MultDivExact ==
    (pc = "returned" /\ ~ub /\ policy = "def"
        /\ ~Ov(MultDivWidth, value1 * value2))
        => result = NearestTiesAway(value1 * value2, divisor)

\* the remainders of the arguments and their reduction by the two gcds
Rem1 == CMod(value1, divisor)
Rem2 == CMod(value2, divisor)
Gcd1 == MathGcd(Rem1, divisor)
Gcd2 == MathGcd(Rem2, divisor \div Gcd1)
ReducedProduct == (Rem1 \div Gcd1) * (Rem2 \div Gcd2)
\* the product of the remainders overflows, the reduced product does not,
\* and the correctly rounded quotient is representable
GcdCase ==
    /\ Ov(MultDivWidth, Rem1 * Rem2)
    /\ ~Ov(MultDivWidth, ReducedProduct)
    /\ ~Ov(MultDivWidth, Documented(policy, value1 * value2, divisor))

\* C3: when the product of the remainders does not fit but the gcd-reduced
\* product and the true quotient do, multDiv returns the correctly rounded
\* quotient.  Stated for the default policy and for every outcome of the call.
C3_GcdPathExact ==
    (pc # "call" /\ policy = "def" /\ GcdCase)
        => (pc = "returned"
            /\ result = Documented(policy, value1 * value2, divisor))

---------------------------------------------------------------------------
(* Claims about the division by a bare integer, checked under SpecDivide *)

\* C9: when the policy's div_rounded signals failure on the dividend's raw
\* value, operator/ and operator/= by an int or int64 return the decimal whose
\* raw value is multDiv(r, 1, rhs) for the original raw value r of the
\* dividend, in decimal_st and in decimal_rt.
C9_IntegerDivisionFallback ==
    (pc = "returned" /\ ~ub
        /\ ~div_rounded(DivideWidth, policy, old_value, rhs).ok
        /\ ~multDiv(DivideWidth, policy, old_value, 1, rhs).ub)
        => ret = multDiv(DivideWidth, policy, old_value, 1, rhs).result

---------------------------------------------------------------------------
(* Claims about the operations on one decimal, checked under SpecDecimal *)

\* the precisions for which the factor of the class is defined
FactorDefined ==
    kind = "decimal_st" \/ m_prec < max_decimal_points(DecimalWidth)

\* C10: getAsInteger returns m_value / 10^precision rounded to an integer by
\* the active rounding policy, for every raw value of the storage range.
\* Stated for the calls that return without undefined behaviour.
C10_GetAsInteger ==
    (pc = "returned" /\ ~ub /\ op = "getAsInteger" /\ FactorDefined)
        => ret = Documented(policy, m_value, DecimalFactor(m_prec))

---------------------------------------------------------------------------
(* Claims about the text codec, checked under SpecCodec *)

\* the integer part of the decimal can be negated in the storage type
IntegerPartNegatable ==
    ~Ov(CodecWidth, -unpack(CodecWidth, m_prec, m_value).before)

\* C1: for every precision 0 .. max_decimal_points and every raw value whose
\* integer part can be negated, toStream followed by fromStream at the same
\* precision evaluates nothing undefined, succeeds, and yields the raw value
\* that was written.
C1_RoundTrip ==
    (op = "toStream" /\ IntegerPartNegatable)
        => /\ pc # "trapped"
           /\ ~ub
           /\ pc = "returned" => (parse_ok /\ parsed = m_value)

\* a negative value below one, at the largest precision, has made the round trip
C1_Witness ==
    /\ pc = "returned"
    /\ op = "toStream"
    /\ m_prec = max_decimal_points(CodecWidth)
    /\ m_value = -5
    /\ text = <<"-", "0", ".">> \o SetwFill(<<"5">>, m_prec)
    /\ parse_ok
    /\ parsed = -5

\* C11: the sign of abs(v) is 0 or 1 for every raw value, and sign(v) is 0
\* exactly when the raw value is 0
C11_AbsSign ==
    /\ (pc = "returned" /\ op = "abs") => sign(ret) \in {0, 1}
    /\ (op = "abs") => pc # "trapped"
    /\ (pc = "returned" /\ op = "sign") => (ret = 0 <=> m_value = 0)

\* both parts of an unpacked value have the sign of the value or are zero
SameSign(x, y) == ~(x > 0 /\ y < 0) /\ ~(x < 0 /\ y > 0)

\* C12: decimal_st::unpack of any raw value gives (before, after) with
\* before * 10^Prec + after = raw, |after| < 10^Prec and no opposite signs,
\* and pack of that pair gives the same raw value again
C12_UnpackPack ==
    (kind = "decimal_st" /\ op \in {"unpack", "pack"})
        => /\ pc # "trapped" /\ ~ub
           /\ before * DecimalFactor(m_prec) + after = old_value
           /\ AbsVal(after) < DecimalFactor(m_prec)
           /\ SameSign(before, after)
           /\ (pc = "returned") => (m_value = old_value)

C12_Witness ==
    /\ kind = "decimal_st" /\ pc = "returned" /\ op = "pack"
    /\ m_prec = 2 /\ old_value = -105
    /\ before = -1 /\ after = -5 /\ m_value = -105

\* C13: decimal_rt::unpack of a negative raw value gives before and after
\* that are negative or zero with before * 10^m_prec + after = raw, and pack
\* of that pair gives the same raw value again
C13_RtUnpackPack ==
    (kind = "decimal_rt" /\ op \in {"unpack", "pack"} /\ old_value < 0
        /\ m_prec < max_decimal_points(MemberWidth))
        => /\ pc # "trapped" /\ ~ub
           /\ before <= 0 /\ after <= 0
           /\ before * DecimalFactor(m_prec) + after = old_value
           /\ (pc = "returned") => (m_value = old_value)

\* the raw value of other brought to the precision of *this
Rescaled ==
    IF other_prec < m_prec
    THEN other_value * DecimalFactor(m_prec - other_prec)
    ELSE Documented(policy, other_value, DecimalFactor(other_prec - m_prec))

\* the raw value that the sum or difference has at the precision of *this
CrossPrecisionResult ==
    IF op \in {"operator+", "operator+="} THEN old_value + Rescaled
    ELSE old_value - Rescaled

\* C14: for decimal_rt operands of different precisions, +, -, += and -= give
\* the raw value of *this plus or minus the raw value of other rescaled by
\* 10^|P - Q|, whatever the raw values are
C14_CrossPrecisionAddSub ==
    (pc = "returned" /\ ~ub
        /\ op \in {"operator+", "operator+=", "operator-", "operator-="}
        /\ other_prec # m_prec
        /\ ~Ov(AddSubWidth, Rescaled)
        /\ ~Ov(AddSubWidth, CrossPrecisionResult))
        => ret = CrossPrecisionResult

\* the precisions that max_decimal_points allows
ValidPrecision == m_prec \in 0..max_decimal_points(ConstructWidth)

\* C15: the constructor from an integer v, operator= with an integer v and
\* setAsInteger(v) all leave the raw value v * 10^precision, in both classes
C15_ScaledInteger ==
    (pc \in {"constructed", "returned"} /\ ~ub
        /\ op \in {"constructor", "operator=", "setAsInteger"}
        /\ ValidPrecision
        /\ ~Ov(ConstructWidth, rhs * DecimalFactor(m_prec)))
        => m_value = rhs * DecimalFactor(m_prec)

\* C16: no decimal_rt with a precision outside 0 .. max_decimal_points ever
\* exists, so no precision factor is looked up for such a precision
C16_PrecisionChecked ==
    (kind = "decimal_rt") => ValidPrecision

\* the shift exponent + precision of the pair held in the state
Shift == exponent + m_prec

\* mantissa * 10^Shift, rounded by the active policy when Shift is negative
ShiftedMantissa ==
    IF Shift >= 0 THEN mantissa * 10^Shift
    ELSE Documented(policy, mantissa, 10^(-Shift))

\* C17: setWithExponent(m, e) sets the raw value to m * 10^(e + precision),
\* rounded by the active policy when e + precision is negative
C17_SetWithExponent ==
    (pc = "returned" /\ ~ub /\ op = "setWithExponent"
        /\ AbsVal(Shift) <= max_decimal_points(ExponentWidth)
        /\ ~Ov(ExponentWidth, ShiftedMantissa))
        => m_value = ShiftedMantissa

\* C18: getWithExponent gives, for every raw value, a mantissa and an
\* exponent with mantissa * 10^(exponent + precision) = raw, the mantissa
\* without a trailing zero digit, or 0 with the exponent -precision; and
\* setWithExponent of that pair gives the same raw value again
C18_ExponentRoundTrip ==
    (pc \in {"normalized", "restored", "trapped restoring"})
        => /\ pc # "trapped restoring" /\ ~ub
           /\ Shift >= 0
           /\ mantissa * 10^Shift = old_value
           /\ IF mantissa = 0 THEN exponent = -m_prec
              ELSE CMod(mantissa, 10) # 0
           /\ (pc = "restored") => (m_value = old_value)

C18_Witness ==
    /\ pc = "restored" /\ kind = "decimal_st" /\ m_prec = 2
    /\ old_value = -120 /\ mantissa = -12 /\ exponent = -1
    /\ m_value = -120

\* the text t without a leading sign
Unsigned1(t) == IF Len(t) > 0 /\ t[1] \in {"-", "+"} THEN Tail(t) ELSE t

\* an optional sign, the decimal point and 1 .. max_decimal_points digits
FractionOnly(t) ==
    /\ Len(Unsigned1(t)) \in 2..(max_decimal_points(CodecWidth) + 1)
    /\ Unsigned1(t)[1] = dec_point
    /\ \A i \in 2..Len(Unsigned1(t)) : IsDigit(Unsigned1(t)[i])

\* C19: a text made of an optional sign, the decimal point and 1 to
\* max_decimal_points fraction digits is parsed successfully
C19_FractionOnlyAccepted ==
    (pc = "returned" /\ FractionOnly(text)) => parse_ok

\* the empty text, a lone sign, a lone decimal point, or a first character
\* that is no digit, sign, point, space or tab
HardFailure(t) ==
    \/ t \in {<<>>, <<"-">>, <<"+">>, <<dec_point>>}
    \/ /\ Len(t) > 0
       /\ ~IsDigit(t[1])
       /\ t[1] \notin {"-", "+", dec_point, " ", "\t"}

\* C20: whenever fromStream or operator>> fails, the raw value of the output
\* decimal is 0 whatever it was before, and the listed texts do fail
C20_FailureResets ==
    (pc = "returned")
        => /\ ~parse_ok => parsed = 0
           /\ HardFailure(text) => ~parse_ok

C20_Witness ==
    /\ pc = "returned" /\ op = "none"
    /\ old_value = 7 /\ text = <<"-">>
    /\ ~parse_ok /\ parsed = 0

\* the digits of n written in exactly p places, zeros in front
ZeroPadded(n, p) == [i \in 1..p |-> DigitChar((n \div (10 ^ (p - i))) % 10)]
\* the text the output format prescribes for the raw value m at precision p
FormattedText(p, m) ==
    (IF m < 0 THEN <<"-">> ELSE <<>>)
    \o Digits(AbsVal(m) \div (10 ^ p))
    \o (IF p > 0 THEN <<".">> \o ZeroPadded(AbsVal(m) % (10 ^ p), p)
        ELSE <<>>)

\* C21: the text toStream writes for a decimal of precision p is a leading
\* '-' exactly when the raw value is negative, the digits of |raw| / 10^p
\* and, only when p > 0, the decimal point followed by exactly p digits
\* holding |raw| % 10^p padded with zeros on the left
C21_OutputFormat ==
    (op = "toStream" /\ pc = "written")
        => (~ub /\ text = FormattedText(m_prec, m_value))

\* the raw value of *this can be held at the precision of the other decimal
Widened == old_value * DecimalFactor(other_prec - m_prec)

\* C22: a value of precision p assigned to a decimal of a higher precision
\* p' at which it is representable, and assigned back to precision p under
\* the truncating policy, keeps its raw value
C22_ScaleInvariance ==
    (pc = "assigned back" /\ policy = "round_down"
        /\ m_prec < other_prec /\ ~Ov(CrossWidth, Widened))
        => (~ub /\ other_value = Widened /\ m_value = old_value)

\* a value with a fraction went to a higher precision and came back
C22_Witness ==
    /\ pc = "assigned back" /\ policy = "round_down"
    /\ m_prec = 1 /\ other_prec = 2 /\ old_value = -12
    /\ other_value = -120 /\ m_value = -12

\* C24: for decimals of fixed precisions P and Q, a + b and a - b have the
\* precision of a and the raw value a.raw +/- b.raw * 10^(P - Q) when
\* Q <= P, a.raw +/- the policy-rounded b.raw / 10^(Q - P) when Q > P, and
\* leave a and b as they were
C24_FixedCrossPrecisionAddSub ==
    (pc = "returned" /\ op \in {"operator+", "operator-"}
        /\ kind = "decimal_st" /\ ~ub
        /\ ~Ov(CrossWidth, CrossPrecisionResult))
        => (ret = CrossPrecisionResult /\ m_value = old_value)

\* the sample of the header: 1431.25 / 3.33 at precision 2, default policy
SampleDivided ==
    /\ pc = "returned" /\ op = "operator/" /\ policy = "def"
    /\ m_prec = 2 /\ old_value = 143125 /\ other_value = 333

\* C23: the precision-2 decimal 1431.25 (raw 143125) divided by the
\* precision-2 decimal 3.33 (raw 333) under the default policy yields 429.80
\* (raw 42980), the quotient 429.8048... rounded to two places
C23_DocumentedSample == SampleDivided => (~ub /\ ret = 42980)

\* the quotient of the sample has been computed
C23_Witness == SampleDivided /\ ret = NearestTiesAway(143125 * 100, 333)

\* C23 as documented: the sample yields 429.86 (raw 42986)
C23_SampleAsDocumented == SampleDivided => ret = 42986

\* C25: isMultOverflow(a, b) is true exactly when the product a * b lies
\* outside the range of the storage type, for every pair of values, the
\* lowest one included
C25_IsMultOverflowExact ==
    (pc = "checked")
        => (overflows <=> Ov(MultDivWidth, value1 * value2))

\* C26: under the half-even policy, for a positive divisor and a product
\* value1 * value2 that fits the storage type, multDiv returns the exact
\* quotient value1 * value2 / divisor rounded to nearest, ties to even
C26_HalfEvenMultDiv ==
    (pc = "returned" /\ ~ub /\ policy = "half_even" /\ divisor > 0
        /\ ~Ov(MultDivWidth, value1 * value2))
        => result = NearestTiesEven(value1 * value2, divisor)

---------------------------------------------------------------------------
(* Claims about the scanner, checked under SpecScan *)

\* the characters extracted so far, without the spaces and tabs in front
RECURSIVE Stripped(_)
Stripped(t) ==
    IF t # <<>> /\ Head(t) \in {" ", "\t"} THEN Stripped(Tail(t)) ELSE t
Extracted == Stripped(SubSeq(text, 1, scan.pos))

\* the scanner is about to extract a space or a tab
BlankNext ==
    /\ pc = "scanning" /\ LoopCondition(scan)
    /\ scan.pos < Len(text) /\ text[scan.pos + 1] \in {" ", "\t"}

\* C27: a space or a tab is skipped only in front of the number; directly
\* after a sign it is a hard failure; after an integer digit or in the
\* fraction it ends the scan and is not skipped
C27_Whitespace ==
    [][(BlankNext /\ pc' = "scanning")
        => /\ scan'.pos = scan.pos + 1
           /\ IF Extracted = <<>>
              THEN LoopCondition(scan') /\ scan'.error = 0
                   /\ scan'.state = scan.state
              ELSE IF Extracted \in {<<"-">>, <<"+">>}
              THEN scan'.state = "IN_END" /\ scan'.error < 0
              ELSE scan'.state = "IN_END"
                   /\ scan'.before = scan.before /\ scan'.after = scan.after]_vars

\* a blank in front was skipped and a blank after the digit ended the scan
C27_Witness ==
    /\ pc = "scanned" /\ text = <<"\t", "5", " ", "5">>
    /\ parse_ok /\ consumed = 3 /\ before = 5

\* the number of digits at the end of the text t
RECURSIVE TrailingDigits(_)
TrailingDigits(t) ==
    IF t # <<>> /\ IsDigit(t[Len(t)])
    THEN 1 + TrailingDigits(SubSeq(t, 1, Len(t) - 1))
    ELSE 0

\* the counter of fraction digits never passes the limit, the scanner is in
\* END as soon as the limit is reached, with the last digit of the fraction
\* as the last character extracted, and the switch is never entered in END
FractionLimited ==
    (pc \in {"scanning", "scanned"})
        => /\ scan.afterDigitCount <= max_decimal_points(ScanWidth)
           /\ scan.error # -3
           /\ scan.pos <= Len(text)
           /\ (scan.afterDigitCount = max_decimal_points(ScanWidth)
                  => /\ scan.state = "IN_END"
                     /\ TrailingDigits(SubSeq(text, 1, scan.pos))
                            = max_decimal_points(ScanWidth))
           /\ (pc = "scanned" => consumed = scan.pos)

\* the passes through the loop that can still follow: one for each
\* character left in the stream and one that meets its end
PassesLeft(ps) == (Len(text) - ps.pos) + (IF ps.good THEN 1 ELSE 0)

\* C28: the counter of fraction digits is at most max_decimal_points in
\* every state of the scanner; the scanner enters END right after the digit
\* that reaches the limit and extracts nothing more; the loop ends for every
\* text, each pass leaving fewer passes to follow, and never dispatches on
\* END (ERR_WRONG_STATE does not occur)
C28_FractionLimit ==
    /\ []FractionLimited
    /\ [][(pc = "scanning" /\ pc' = "scanning")
            => (PassesLeft(scan') < PassesLeft(scan)
                /\ PassesLeft(scan') >= 0)]_vars

\* a fraction longer than the limit: the scan stopped after the last digit
\* that fits
C28_Witness ==
    /\ pc = "scanned" /\ text = <<".", "5", "5", "5">>
    /\ scan.afterDigitCount = max_decimal_points(ScanWidth)
    /\ consumed = 3

---------------------------------------------------------------------------
(* Further claims about setWithExponent and the precision factor *)

\* C29: setWithExponent never divides by zero: for every mantissa and every
\* exponent with exponent + precision < 0, in particular below
\* -max_decimal_points where pow10 returns 0, the call completes and leaves
\* the policy-rounded quotient, which is 0 for so small a shift
C29_NeverDividesByZero ==
    (op = "setWithExponent" /\ pc \in {"returned", "trapped"}
        /\ Shift < -max_decimal_points(ExponentWidth))
        => (pc = "returned" /\ ~ub /\ m_value = 0)

\* C30: for every precision n from 0 to max_decimal_points, the factor that
\* getPrecFactorInt64(n) reads lies inside its table and is 10^n, the value
\* of pow10(n)
C30_PrecFactor ==
    (op = "getPrecFactor" /\ pc \in {"returned", "trapped"})
        => (pc = "returned" /\ ~ub /\ ret = pow10(MemberWidth, m_prec))

=========================================================================
